---- MODULE Spec2Model ----
(***************************************************************************)
(* Plane <-> Asana reconciliation: the matching engine (lib/matching), the *)
(* TaskMapping store with its link operations, and the snapshot based      *)
(* change detection (GET/POST /api/mappings/[mappingId]/changes), and the  *)
(* field and comment sync (POST /api/sync).                                *)
(*                                                                         *)
(* Eight specifications share the module:                                  *)
(*   SpecMatch  - one call of autoMatchAllTasks on bounded inputs          *)
(*   SpecScore  - one call of findMatches or getBestMatch                  *)
(*   SpecFetch  - fetchCommentCountsBatched, promise by promise            *)
(*   SpecLink   - the TaskMapping store under the link operations          *)
(*   Spec       - change detection over linked pairs, remote edits and     *)
(*                the deletion of a project mapping                        *)
(*   SpecBand   - one scoring rule of findMatches on two targets           *)
(*   SpecRequests - GET changes await by await, for overlapping requests   *)
(*   SpecSync   - POST /api/sync, the comment copies of the imports        *)
(***************************************************************************)
EXTENDS Integers, Sequences, FiniteSets, TLC

VARIABLES
    \* ---- matching engine (one call of autoMatchAllTasks)
    planeTasks,             \* argument: Plane tasks, in input order
    asanaTasks,             \* argument: Asana tasks, in input order
    alreadyLinkedPlaneIds,  \* argument
    alreadyLinkedAsanaGids, \* argument
    minConfidence,          \* argument
    suggestions,            \* the returned SuggestedMatch[]
    matchPc,                \* "input" before the call, "done" after it
    \* ---- scorer (one call of findMatches or getBestMatch)
    scoreSourceName,        \* argument
    scoreSourceDescription, \* argument
    scoreTargets,           \* argument: MatchableTask[], in input order
    scoreThreshold,         \* argument
    returnedCandidates,     \* the MatchCandidate[] that findMatches returned
    returnedBestMatch,      \* the MatchCandidate | null that getBestMatch returned
    scorePc,                \* "input" before the call, "done" after it
    \* ---- fetchCommentCountsBatched, promise by promise
    tasksToFetch,           \* the filtered task list
    onlyModified,           \* argument: the id filter, or NoFilter
    batchStart,             \* the loop variable i
    fetchPc,                \* where the function stands
    inFlight,               \* the requests issued and not yet settled
    planeComments,          \* result map: Plane issue id -> count
    asanaComments,          \* result map: Asana task gid -> count
    issued,                 \* every request issued so far, with its batch
    rejected,               \* the requests that the remote system rejected
    delaysElapsed,          \* the batches whose inter-batch delay has elapsed
    \* ---- TaskMapping store and the link operations
    taskMappings,           \* the TaskMapping rows
    nextId,                 \* source of fresh row ids
    request,                \* the last request handled: operation and arguments
    response,               \* its response
    applyLog,               \* per suggestion processed by the last bulk apply:
                            \* the store before and after it, and its result
    \* ---- change detection
    projectMappings,        \* the ids of the ProjectMapping rows
    remotePlane,            \* the Plane project: issue id -> issue
    remoteAsana,            \* the Asana project: task gid -> task
    taskSnapshots,          \* the TaskSnapshot rows
    changeLog,              \* the ChangeLog rows, in insertion order
    clock,                  \* remote time: the number of remote edits so far
    failures,               \* the number of comment fetches that failed so far
    detectRun,              \* what the last changes request read: the snapshots
                            \* it loaded and the comment counts it recorded
    \* ---- one scoring rule of findMatches applied to two targets
    bandRule,               \* the rule: the stage of the loop body
    bandScores,             \* the similarity ratio of each of the two targets
    bandConfidences,        \* the confidence of the candidate of each target
    bandPc,                 \* "input" before the stage ran, "done" after it
    \* ---- GET changes, await by await, for requests that overlap
    running,                \* request id -> where the handler stands and what
                            \* it has read so far
    \* ---- POST /api/sync and the comment copies of the imports
    syncMapping,            \* the TaskMapping row of the pair that is synced
    planeIssueComments,     \* the comments of the Plane issue, oldest first
    asanaTaskStories,       \* the comment stories of the Asana task, oldest first
    commentSync,            \* the CommentSync table
    syncRequest             \* the last request served and its response

matchVars == << planeTasks, asanaTasks, alreadyLinkedPlaneIds,
                alreadyLinkedAsanaGids, minConfidence, suggestions, matchPc >>

scoreVars == << scoreSourceName, scoreSourceDescription, scoreTargets, scoreThreshold, returnedCandidates,
               returnedBestMatch, scorePc >>

fetchVars == << tasksToFetch, onlyModified, batchStart, fetchPc, inFlight,
               planeComments, asanaComments, issued, rejected, delaysElapsed >>

linkVars == << taskMappings, nextId, request, response, applyLog >>

detectVars == << projectMappings, remotePlane, remoteAsana, taskSnapshots, changeLog, clock,
                 failures, detectRun >>

bandVars == << bandRule, bandScores, bandConfidences, bandPc >>

requestVars == << running >>

syncVars == << syncMapping, planeIssueComments, asanaTaskStories, commentSync, syncRequest >>

vars == << matchVars, scoreVars, fetchVars, linkVars, detectVars, bandVars, requestVars, syncVars >>

NULL == "null"

(***************************************************************************)
(* Bounds                                                                  *)
(***************************************************************************)
MaxPlaneTasks == 2
MaxAsanaTasks == 2

(***************************************************************************)
(* The records of the two remote systems that the calls draw from         *)
(***************************************************************************)
FixLoginBug == <<"F","i","x"," ","l","o","g","i","n"," ","b","u","g">>
FixLoginBugBang == <<"f","i","x"," "," ","l","o","g","i","n"," ","b","u","g","!">>
BugLoginCrash == <<"B","u","g",":"," ","l","o","g","i","n"," ","c","r","a","s","h">>
UpdateLoginPage == <<"U","p","d","a","t","e"," ","l","o","g","i","n"," ","p","a","g","e">>
FixLogin == <<"F","i","x"," ","l","o","g","i","n">>
Billing == <<"B","i","l","l","i","n","g">>
CrashReportText == <<"l","o","g","i","n"," ","p","a","g","e"," ","c","r","a","s","h"," ","r","e","p","o","r","t">>
InvoiceText == <<"b","i","l","l","i","n","g"," ","i","n","v","o","i","c","e"," ","t","o","t","a","l","s">>
BillingPageText == <<"b","i","l","l","i","n","g"," ","p","a","g","e">>

PlaneUniverse ==
    { [id |-> "p1", name |-> FixLoginBug, description |-> << >>],
      [id |-> "p2", name |-> FixLoginBugBang, description |-> CrashReportText],
      [id |-> "p3", name |-> Billing, description |-> InvoiceText] }

AsanaUniverse ==
    { [gid |-> "a1", name |-> FixLoginBug, notes |-> << >>],
      [gid |-> "a2", name |-> BugLoginCrash, notes |-> CrashReportText],
      [gid |-> "a3", name |-> FixLogin, notes |-> InvoiceText] }

\* the sources and the targets that the calls of the scorer draw from
ScoreSources ==
    { [name |-> FixLoginBug, description |-> << >>],
      [name |-> FixLoginBugBang, description |-> CrashReportText],
      [name |-> Billing, description |-> InvoiceText] }

ScoreTargetChoices ==
    { [name |-> FixLoginBug, description |-> << >>],
      [name |-> UpdateLoginPage, description |-> BillingPageText],
      [name |-> BugLoginCrash, description |-> CrashReportText],
      [name |-> FixLogin, description |-> InvoiceText] }

PlaneIds == { t.id : t \in PlaneUniverse }
AsanaGids == { t.gid : t \in AsanaUniverse }

\* every text of the universe, and its normal form and keyword set computed once
Texts ==
    { t.name : t \in PlaneUniverse } \cup { t.description : t \in PlaneUniverse }
        \cup { t.name : t \in AsanaUniverse } \cup { t.notes : t \in AsanaUniverse }
        \cup { t.name : t \in ScoreSources } \cup { t.description : t \in ScoreSources }
        \cup { t.name : t \in ScoreTargetChoices }
        \cup { t.description : t \in ScoreTargetChoices }

(***************************************************************************)
(* Text: a string is a sequence of one-character strings.                  *)
(***************************************************************************)
LowerChars == <<"a","b","c","d","e","f","g","h","i","j","k","l","m","n","o","p","q","r","s","t","u","v","w","x","y","z">>
UpperChars == <<"A","B","C","D","E","F","G","H","I","J","K","L","M","N","O","P","Q","R","S","T","U","V","W","X","Y","Z">>
OtherWordChars == <<"0","1","2","3","4","5","6","7","8","9","_">>

Range(s) == { s[i] : i \in DOMAIN s }

SeqsUpTo(S, k) == UNION { [1..m -> S] : m \in 0..k }

toLowerCase(c) ==
    IF c \in Range(UpperChars)
    THEN LowerChars[CHOOSE i \in DOMAIN UpperChars : UpperChars[i] = c]
    ELSE c

IsWordChar(c) == c \in Range(LowerChars) \cup Range(UpperChars) \cup Range(OtherWordChars)
IsSpaceChar(c) == c = " "

\* .replace(/\s+/g, " "): every run of whitespace becomes one space
RECURSIVE CollapseSpaces(_)
CollapseSpaces(s) ==
    IF s = << >> THEN << >>
    ELSE IF IsSpaceChar(Head(s)) /\ Len(s) > 1 /\ IsSpaceChar(s[2])
         THEN CollapseSpaces(Tail(s))
         ELSE << IF IsSpaceChar(Head(s)) THEN " " ELSE Head(s) >> \o CollapseSpaces(Tail(s))

\* .trim()
RECURSIVE TrimLeft(_)
TrimLeft(s) == IF s # << >> /\ IsSpaceChar(Head(s)) THEN TrimLeft(Tail(s)) ELSE s
RECURSIVE TrimRight(_)
TrimRight(s) ==
    IF s # << >> /\ IsSpaceChar(s[Len(s)]) THEN TrimRight(SubSeq(s, 1, Len(s) - 1)) ELSE s

normalizeText(text) ==
    LET lowered == [i \in DOMAIN text |-> toLowerCase(text[i])]
        noPunct == [i \in DOMAIN lowered |->
                       IF IsWordChar(lowered[i]) \/ IsSpaceChar(lowered[i])
                       THEN lowered[i] ELSE " "]
    IN  TrimRight(TrimLeft(CollapseSpaces(noPunct)))

\* s.split(" "): the pieces between single spaces ("" splits to [""])
RECURSIVE SplitOnSpace(_, _)
SplitOnSpace(s, cur) ==
    IF s = << >> THEN << cur >>
    ELSE IF Head(s) = " " THEN << cur >> \o SplitOnSpace(Tail(s), << >>)
         ELSE SplitOnSpace(Tail(s), Append(cur, Head(s)))

stopWords ==
    { <<"t","h","e">>, <<"a","n","d">>, <<"f","o","r">>,
      <<"w","i","t","h">>, <<"t","h","i","s">>, <<"t","h","a","t">>,
      <<"f","r","o","m">>, <<"h","a","v","e">>, <<"b","e","e","n">>,
      <<"w","i","l","l">>, <<"w","o","u","l","d">>, <<"c","o","u","l","d">>,
      <<"s","h","o","u","l","d">>, <<"a","b","o","u","t">>, <<"i","n","t","o">>,
      <<"t","h","r","o","u","g","h">>, <<"d","u","r","i","n","g">>, <<"b","e","f","o","r","e">>,
      <<"a","f","t","e","r">>, <<"a","b","o","v","e">>, <<"b","e","l","o","w">>,
      <<"b","e","t","w","e","e","n">>, <<"u","n","d","e","r">>, <<"a","g","a","i","n">>,
      <<"f","u","r","t","h","e","r">>, <<"t","h","e","n">>, <<"o","n","c","e">>,
      <<"h","e","r","e">>, <<"t","h","e","r","e">>, <<"w","h","e","n">>,
      <<"w","h","e","r","e">>, <<"w","h","a","t">>, <<"w","h","i","c","h">>,
      <<"w","h","i","l","e">>, <<"u","p","d","a","t","e">>, <<"c","r","e","a","t","e">>,
      <<"a","d","d">>, <<"r","e","m","o","v","e">>, <<"d","e","l","e","t","e">>,
      <<"c","h","a","n","g","e">>, <<"m","a","k","e">>, <<"n","e","e","d">>,
      <<"t","a","s","k">>, <<"i","s","s","u","e">>, <<"i","t","e","m">>,
      <<"w","o","r","k">>, <<"p","r","o","j","e","c","t">> }

extractKeywords(text) ==
    LET words == SplitOnSpace(normalizeText(text), << >>)
    IN  { words[i] : i \in { j \in DOMAIN words : Len(words[j]) > 3 /\ words[j] \notin stopWords } }

Normalized == [t \in Texts |-> normalizeText(t)]
Keywords == [t \in Texts |-> extractKeywords(t)]

(***************************************************************************)
(* Scores and confidences are exact fractions [n, d] with d > 0.           *)
(***************************************************************************)
Frac(n, d) == [n |-> n, d |-> d]
FracGE(a, b) == a.n * b.d >= b.n * a.d
FracGT(a, b) == a.n * b.d > b.n * a.d
FracEQ(a, b) == a.n * b.d = b.n * a.d
FracAdd(a, b) == Frac(a.n * b.d + b.n * a.d, a.d * b.d)
FracMul(a, b) == Frac(a.n * b.n, a.d * b.d)
\* Math.min(cap, x)
Uncapped(a, b) == b
FracMin(a, b) == IF FracGE(a, b) THEN b ELSE a
FracMax(a, b) == IF FracGE(a, b) THEN a ELSE b
\* Math.round(x * 100)
RoundPercent(a) == (200 * a.n + a.d) \div (2 * a.d)

\* Jaccard similarity of the two keyword sets
NoOverlap(text1, text2) == Frac(0, 1)
keywordOverlapScore(text1, text2) ==
    LET keywords1 == Keywords[text1]
        keywords2 == Keywords[text2]
    IN  IF keywords1 = {} \/ keywords2 = {} THEN Frac(0, 1)
        ELSE Frac(Cardinality(keywords1 \cap keywords2), Cardinality(keywords1 \cup keywords2))

\* String.prototype.includes
includes(s, sub) ==
    \E i \in 0..(Len(s) - Len(sub)) : SubSeq(s, i + 1, i + Len(sub)) = sub

Candidate(target, confidence, method, reason) ==
    [gid |-> target.gid, name |-> target.name, confidence |-> confidence,
     matchMethod |-> method, matchReason |-> reason]

\* Stage 2: containmentScore > 0.5 and 0.85 * containmentScore + 0.15
containmentFires(containmentScore) == FracGT(containmentScore, Frac(1, 2))
containmentConfidence(containmentScore) ==
    Frac(85 * containmentScore.n + 15 * containmentScore.d, 100 * containmentScore.d)

\* Stage 3: nameKeywordScore >= 0.4 and Math.min(0.9, nameKeywordScore + 0.3)
nameKeywordFires(nameKeywordScore) == FracGE(nameKeywordScore, Frac(4, 10))
Penalised(nameKeywordScore) ==
    FracMin(Frac(9, 10), Frac(13 * nameKeywordScore.d - 10 * nameKeywordScore.n,
                              10 * nameKeywordScore.d))
nameKeywordConfidence(nameKeywordScore) ==
    FracMin(Frac(9, 10), FracAdd(nameKeywordScore, Frac(3, 10)))

\* Stage 4: descKeywordScore >= 0.3 and Math.min(0.8, descKeywordScore + 0.2)
descKeywordFires(descKeywordScore) == FracGE(descKeywordScore, Frac(3, 10))
descKeywordConfidence(descKeywordScore) ==
    FracMin(Frac(8, 10), FracAdd(descKeywordScore, Frac(2, 10)))

\* cross match: crossScore >= 0.3 and Math.min(0.75, crossScore + 0.15)
crossFires(crossScore) == FracGE(crossScore, Frac(3, 10))
crossConfidence(crossScore) ==
    FracMin(Frac(75, 100), FracAdd(crossScore, Frac(15, 100)))

\* every rule is tried for the target, whether or not an earlier one fired
NoContinue(normalizedSource, sourceName, sourceDescription, target) ==
    LET normalizedTarget == Normalized[target.name]
        shorter == IF Len(normalizedSource) < Len(normalizedTarget)
                   THEN Len(normalizedSource) ELSE Len(normalizedTarget)
        longer == IF Len(normalizedSource) < Len(normalizedTarget)
                  THEN Len(normalizedTarget) ELSE Len(normalizedSource)
        nameKeywordScore == keywordOverlapScore(sourceName, target.name)
        descKeywordScore == keywordOverlapScore(sourceDescription, target.description)
    IN  (IF normalizedSource = normalizedTarget
         THEN << Candidate(target, Frac(1, 1), "exact", <<"Exact name match">>) >>
         ELSE << >>)
        \o
        (IF /\ (includes(normalizedSource, normalizedTarget)
                  \/ includes(normalizedTarget, normalizedSource))
            /\ 2 * shorter > longer
         THEN << Candidate(target, Frac(85 * shorter + 15 * longer, 100 * longer),
                           "fuzzy", <<"Name contains match">>) >>
         ELSE << >>)
        \o
        (IF FracGE(nameKeywordScore, Frac(4, 10))
         THEN << Candidate(target, FracMin(Frac(9, 10), FracAdd(nameKeywordScore, Frac(3, 10))),
                           "fuzzy", <<RoundPercent(nameKeywordScore), "% keyword match in name">>) >>
         ELSE << >>)
        \o
        (IF /\ sourceDescription # << >> /\ target.description # << >>
            /\ FracGE(descKeywordScore, Frac(3, 10))
         THEN << Candidate(target, FracMin(Frac(8, 10), FracAdd(descKeywordScore, Frac(2, 10))),
                           "description", <<RoundPercent(descKeywordScore), "% description similarity">>) >>
         ELSE << >>)

\* The candidate one target contributes: a sequence of length 0 or 1
CandidateFor(normalizedSource, sourceName, sourceDescription, target) ==
    LET normalizedTarget == Normalized[target.name]
        shorter == IF Len(normalizedSource) < Len(normalizedTarget)
                   THEN Len(normalizedSource) ELSE Len(normalizedTarget)
        longer == IF Len(normalizedSource) < Len(normalizedTarget)
                  THEN Len(normalizedTarget) ELSE Len(normalizedSource)
        containmentScore == Frac(shorter, longer)
        nameKeywordScore == keywordOverlapScore(sourceName, target.name)
        descKeywordScore == keywordOverlapScore(sourceDescription, target.description)
        crossScore == FracMax(keywordOverlapScore(sourceName, target.description),
                              keywordOverlapScore(target.name, sourceDescription))
    IN  IF normalizedSource = normalizedTarget
        THEN << Candidate(target, Frac(1, 1), "exact", <<"Exact name match">>) >>
        ELSE IF /\ (includes(normalizedSource, normalizedTarget)
                      \/ includes(normalizedTarget, normalizedSource))
                /\ containmentFires(containmentScore)
        THEN << Candidate(target, containmentConfidence(containmentScore),
                          "fuzzy", <<"Name contains match">>) >>
        ELSE IF nameKeywordFires(nameKeywordScore)
        THEN << Candidate(target, nameKeywordConfidence(nameKeywordScore),
                          "fuzzy", <<RoundPercent(nameKeywordScore), "% keyword match in name">>) >>
        ELSE IF sourceDescription # << >> /\ target.description # << >>
        THEN IF descKeywordFires(descKeywordScore)
             THEN << Candidate(target, descKeywordConfidence(descKeywordScore),
                               "description", <<RoundPercent(descKeywordScore), "% description similarity">>) >>
             ELSE IF crossFires(crossScore)
             THEN << Candidate(target, crossConfidence(crossScore),
                               "description", <<"Name found in description">>) >>
             ELSE << >>
        ELSE << >>

RECURSIVE CandidatesOf(_, _, _, _)
CandidatesOf(normalizedSource, sourceName, sourceDescription, targetTasks) ==
    IF targetTasks = << >> THEN << >>
    ELSE CandidateFor(normalizedSource, sourceName, sourceDescription, Head(targetTasks))
         \o CandidatesOf(normalizedSource, sourceName, sourceDescription, Tail(targetTasks))

\* Array.prototype.sort((a, b) => b.confidence - a.confidence): stable, descending
AppendLast(sorted, c) == Append(sorted, c)
RECURSIVE InsertByConfidence(_, _)
InsertByConfidence(sorted, c) ==
    IF sorted = << >> THEN << c >>
    ELSE IF FracGE(Head(sorted).confidence, c.confidence)
         THEN << Head(sorted) >> \o InsertByConfidence(Tail(sorted), c)
         ELSE << c >> \o sorted

Unsorted(list, sorted) == list
RECURSIVE SortByConfidence(_, _)
SortByConfidence(list, sorted) ==
    IF list = << >> THEN sorted
    ELSE SortByConfidence(Tail(list), InsertByConfidence(sorted, Head(list)))

\* .slice(0, 5)
KeepAll(s, k) == s
FirstN(s, k) == SubSeq(s, 1, IF Len(s) < k THEN Len(s) ELSE k)

findMatches(sourceName, targetTasks, threshold, sourceDescription) ==
    LET candidates == CandidatesOf(Normalized[sourceName], sourceName,
                                   sourceDescription, targetTasks)
        passing == SelectSeq(candidates, LAMBDA c : FracGE(c.confidence, threshold))
    IN  FirstN(SortByConfidence(passing, << >>), 5)

(***************************************************************************)
(* fuzzySearch wraps the Fuse.js library, which is not part of the         *)
(* repository: what Fuse returns first is an oracle, [pick, score].        *)
(* pick = 0 means no result; otherwise the pick-th target is the top hit.  *)
(* Fuse only returns hits whose score is at most 1 - threshold; the        *)
(* wrapper turns a score of 0 into confidence 1 - (0 || 1) = 0.            *)
(***************************************************************************)
FuseScores(threshold) == { Frac(0, 1), Frac(1, 10), Frac(threshold.d - threshold.n, threshold.d) }

FuseOracles(threshold) ==
    { [pick |-> 0, score |-> Frac(0, 1)] }
        \cup [pick : 1..MaxAsanaTasks, score : FuseScores(threshold)]

fuzzySearch(query, targetTasks, threshold, oracle) ==
    IF oracle.pick = 0 \/ oracle.pick > Len(targetTasks) THEN << >>
    ELSE << Candidate(targetTasks[oracle.pick],
                      IF oracle.score.n = 0 THEN Frac(0, 1)
                      ELSE Frac(oracle.score.d - oracle.score.n, oracle.score.d),
                      "fuzzy", <<"Fuzzy text match">>) >>

\* the null that getBestMatch returns
NoMatch == [gid |-> NULL]

\* the first entry of the list when it clears minConf: a sequence of length 0 or 1
TopAtLeast(list, minConf) ==
    IF list # << >> /\ FracGE(list[1].confidence, minConf) THEN << list[1] >> ELSE << >>

\* the choice between the two result lists: the rule-based one first
FuzzyFirst(matches, fuzzyMatches, minConf) ==
    IF TopAtLeast(fuzzyMatches, minConf) # << >> THEN fuzzyMatches[1]
    ELSE IF TopAtLeast(matches, minConf) # << >> THEN matches[1]
    ELSE NoMatch
RulesFirst(matches, fuzzyMatches, minConf) ==
    IF TopAtLeast(matches, minConf) # << >> THEN matches[1]
    ELSE IF TopAtLeast(fuzzyMatches, minConf) # << >> THEN fuzzyMatches[1]
    ELSE NoMatch

getBestMatch(sourceName, targetTasks, minConf, sourceDescription, oracle) ==
    RulesFirst(findMatches(sourceName, targetTasks, minConf, sourceDescription),
               fuzzySearch(sourceName, targetTasks, minConf, oracle), minConf)

SuggestedMatch(planeTask, bestMatch) ==
    [planeTaskId |-> planeTask.id, planeTaskName |-> planeTask.name,
     asanaTaskGid |-> bestMatch.gid, asanaTaskName |-> bestMatch.name,
     confidence |-> bestMatch.confidence, matchMethod |-> bestMatch.matchMethod,
     matchReason |-> bestMatch.matchReason]

\* usedAsanaGids.add(bestMatch.gid)
MarkUsedNever(usedAsanaGids, gid) == usedAsanaGids
MarkUsed(usedAsanaGids, gid) == usedAsanaGids \cup {gid}

\* alreadyLinkedPlaneIds.has(planeTask.id)
NeverLinked(linkedPlane, id) == FALSE
IsLinked(linkedPlane, id) == id \in linkedPlane

\* The loop over planeTasks; returns the unsorted suggestions
RECURSIVE MatchLoop(_, _, _, _, _, _, _)
MatchLoop(pTasks, matchable, linkedPlane, minConf, oracle, usedAsanaGids, acc) ==
    IF pTasks = << >> THEN acc
    ELSE LET planeTask == Head(pTasks)
             \* the body of one iteration, given its two constants
             Iteration(availableTasks, bestMatch) ==
                 IF \/ IsLinked(linkedPlane, planeTask.id)
                    \/ availableTasks = << >>
                    \/ bestMatch.gid = NULL
                 THEN MatchLoop(Tail(pTasks), matchable, linkedPlane, minConf, oracle,
                                usedAsanaGids, acc)
                 ELSE MatchLoop(Tail(pTasks), matchable, linkedPlane, minConf, oracle,
                                MarkUsed(usedAsanaGids, bestMatch.gid),
                                Append(acc, SuggestedMatch(planeTask, bestMatch)))
             WithAvailable(availableTasks) ==
                 Iteration(availableTasks,
                           getBestMatch(planeTask.name, availableTasks, minConf,
                                        planeTask.description, oracle))
         IN  WithAvailable(SelectSeq(matchable, LAMBDA t : t.gid \notin usedAsanaGids))

\* for (const planeTask of planeTasks): the order in which the loop takes them
RECURSIVE ReverseOrder(_)
ReverseOrder(pTasks) ==
    IF pTasks = << >> THEN << >> ELSE Append(ReverseOrder(Tail(pTasks)), Head(pTasks))
ProcessingOrder(pTasks) == pTasks

autoMatchAllTasks(pTasks, aTasks, linkedPlane, linkedAsana, minConf, oracle) ==
    LET matchableAsanaTasks ==
            [i \in DOMAIN SelectSeq(aTasks, LAMBDA t : t.gid \notin linkedAsana) |->
                LET t == SelectSeq(aTasks, LAMBDA u : u.gid \notin linkedAsana)[i]
                IN  [gid |-> t.gid, name |-> t.name, description |-> t.notes]]
    IN  SortByConfidence(
            MatchLoop(ProcessingOrder(pTasks), matchableAsanaTasks, linkedPlane, minConf,
                      oracle, linkedAsana, << >>),
            << >>)

(***************************************************************************)
(* The TaskMapping store.  A row is                                        *)
(*   [id, projectMappingId, planeIssueId, planeIssueName,                  *)
(*    asanaTaskGid, asanaTaskName]                                         *)
(* with NULL for an absent side.  The SyncHistory rows that the handlers   *)
(* append for the audit trail are never read back and are left out.        *)
(***************************************************************************)
NoRequest == [op |-> "none"]
NoResponse == [status |-> 0]

\* a request is handled to completion, and its response handed over, before
\* the next one is taken
Idle == request = NoRequest

MaxSuggestions == 2
MaxRows == 3

\* the store is kept to MaxRows rows
WithinBounds == Cardinality(taskMappings') <= MaxRows

ProjectMappingIds == { "m1", "m2" }
LinkPlaneIds == { "p1", "p2" }
LinkAsanaGids == { "a1", "a2" }

\* the names the callers send along with an id
NameOfPlane == [p \in LinkPlaneIds |-> << "plane name", p >>]
NameOfAsana == [a \in LinkAsanaGids |-> << "asana name", a >>]

Row(id, mappingId, p, pname, a, aname) ==
    [id |-> id, projectMappingId |-> mappingId,
     planeIssueId |-> p, planeIssueName |-> pname,
     asanaTaskGid |-> a, asanaTaskName |-> aname]

FullyLinked(r) == r.planeIssueId # NULL /\ r.asanaTaskGid # NULL

\* CREATE UNIQUE INDEX TaskMapping_planeIssueId_key / TaskMapping_asanaTaskGid_key:
\* a write that would leave two rows with the same non-null value throws
NoUniqueIndex(rows) == FALSE
ViolatesUniqueIndex(rows) ==
    \E r1, r2 \in rows :
        /\ r1.id # r2.id
        /\ \/ r1.planeIssueId # NULL /\ r1.planeIssueId = r2.planeIssueId
           \/ r1.asanaTaskGid # NULL /\ r1.asanaTaskGid = r2.asanaTaskGid

\* prisma.taskMapping.update({ where: { id }, data })
UpdateRow(rows, id, changed) == { IF r.id = id THEN changed ELSE r : r \in rows }

\* findFirst / findUnique: the matching row, or NoRow
NoRow == [id |-> 0]
FindRow(rows, Test(_)) ==
    IF \E r \in rows : Test(r) THEN CHOOSE r \in rows : Test(r) ELSE NoRow

Suggestions == [planeTaskId : LinkPlaneIds, asanaTaskGid : LinkAsanaGids]

(***************************************************************************)
(* POST auto-match: one iteration of the loop over the suggestions.        *)
(* Returns the store after it, whether a database write threw, and the     *)
(* entry pushed to results.                                                *)
(***************************************************************************)
\* the rows the already-linked check reads: the store as it is at this iteration
CheckedAtRequestStart(rowsNow, rowsAtStart) == rowsAtStart
CheckedRows(rowsNow, rowsAtStart) == rowsNow

\* data of the update of a Plane-only row
CompletePlaneOnly(r, s) ==
    [r EXCEPT !.asanaTaskGid = s.asanaTaskGid,
              !.asanaTaskName = NameOfAsana[s.asanaTaskGid]]

\* data of the update of an Asana-only row
CompleteAsanaOnly(r, s) ==
    [r EXCEPT !.planeIssueId = s.planeTaskId,
              !.planeIssueName = NameOfPlane[s.planeTaskId]]

ApplySuggestion(rows, rowsAtStart, nid, mappingId, s) ==
    LET checked == CheckedRows(rows, rowsAtStart)
        existingPlane == FindRow(checked, LAMBDA r :
            /\ r.projectMappingId = mappingId
            /\ r.planeIssueId = s.planeTaskId
            /\ r.asanaTaskGid # NULL)
        existingAsana == FindRow(checked, LAMBDA r :
            /\ r.projectMappingId = mappingId
            /\ r.asanaTaskGid = s.asanaTaskGid
            /\ r.planeIssueId # NULL)
        planeOnlyMapping == FindRow(rows, LAMBDA r :
            /\ r.projectMappingId = mappingId
            /\ r.planeIssueId = s.planeTaskId
            /\ r.asanaTaskGid = NULL)
        asanaOnlyMapping == FindRow(rows, LAMBDA r :
            /\ r.projectMappingId = mappingId
            /\ r.asanaTaskGid = s.asanaTaskGid
            /\ r.planeIssueId = NULL)
        afterPlaneUpdate ==
            UpdateRow(rows, planeOnlyMapping.id, CompletePlaneOnly(planeOnlyMapping, s))
        afterAsanaUpdate ==
            UpdateRow(rows, asanaOnlyMapping.id, CompleteAsanaOnly(asanaOnlyMapping, s))
        afterCreate ==
            rows \cup { Row(nid, mappingId, s.planeTaskId, NameOfPlane[s.planeTaskId],
                            s.asanaTaskGid, NameOfAsana[s.asanaTaskGid]) }
        Threw == [rows |-> rows, threw |-> TRUE, linkedId |-> 0,
                  result |-> [status |-> "error", reason |-> "Failed to apply matches"]]
        Linked(newRows, id) ==
                 [rows |-> newRows, threw |-> FALSE, linkedId |-> id,
                  result |-> [status |-> "linked", reason |-> NULL]]
    IN  IF existingPlane # NoRow \/ existingAsana # NoRow
        THEN [rows |-> rows, threw |-> FALSE, linkedId |-> 0,
              result |-> [status |-> "skipped", reason |-> "Already linked"]]
        ELSE IF planeOnlyMapping # NoRow
        THEN IF ViolatesUniqueIndex(afterPlaneUpdate) THEN Threw
             ELSE Linked(IF asanaOnlyMapping # NoRow
                         THEN { r \in afterPlaneUpdate : r.id # asanaOnlyMapping.id }
                         ELSE afterPlaneUpdate,
                         planeOnlyMapping.id)
        ELSE IF asanaOnlyMapping # NoRow
        THEN IF ViolatesUniqueIndex(afterAsanaUpdate) THEN Threw
             ELSE Linked(afterAsanaUpdate, asanaOnlyMapping.id)
        ELSE IF ViolatesUniqueIndex(afterCreate) THEN Threw
             ELSE Linked(afterCreate, nid)

\* the loop: stops at the first iteration that throws
RECURSIVE ApplyLoop(_, _, _, _, _, _)
ApplyLoop(rows, rowsAtStart, nid, mappingId, todo, log) ==
    IF todo = << >>
    THEN [rows |-> rows, nextId |-> nid, log |-> log, threw |-> FALSE]
    ELSE LET s == Head(todo)
             out == ApplySuggestion(rows, rowsAtStart, nid, mappingId, s)
             entry == [suggestion |-> s, mappingId |-> mappingId, before |-> rows,
                       after |-> out.rows, result |-> out.result]
         IN  IF out.threw
             THEN [rows |-> rows, nextId |-> nid, log |-> Append(log, entry), threw |-> TRUE]
             ELSE ApplyLoop(out.rows, rowsAtStart,
                            IF out.linkedId = nid THEN nid + 1 ELSE nid,
                            mappingId, Tail(todo), Append(log, entry))

\* POST /api/mappings/[mappingId]/auto-match
ApplySuggestions ==
  /\ Idle
  /\
    \E mappingId \in ProjectMappingIds, todo \in SeqsUpTo(Suggestions, MaxSuggestions) :
        LET out == ApplyLoop(taskMappings, taskMappings, nextId, mappingId, todo, << >>)
        IN  /\ taskMappings' = out.rows
            /\ nextId' = out.nextId
            /\ applyLog' = out.log
            /\ request' = [op |-> "apply", mappingId |-> mappingId, suggestions |-> todo]
            /\ response' = IF out.threw
                           THEN [status |-> 500, error |-> "Failed to apply matches"]
                           ELSE [status |-> 200,
                                 results |-> [i \in DOMAIN out.log |-> out.log[i].result]]
            /\ UNCHANGED << matchVars, scoreVars, fetchVars, detectVars, bandVars, requestVars, syncVars >>
            /\ WithinBounds

\* POST /api/mappings/[mappingId]/link
ManualLink ==
  /\ Idle
  /\
    \E mappingId \in ProjectMappingIds, p \in LinkPlaneIds, a \in LinkAsanaGids :
        LET existingPlaneLink == FindRow(taskMappings, LAMBDA r : r.planeIssueId = p)
            existingAsanaLink == FindRow(taskMappings, LAMBDA r : r.asanaTaskGid = a)
            s == [planeTaskId |-> p, asanaTaskGid |-> a]
            newRows ==
                IF existingPlaneLink # NoRow
                THEN UpdateRow(taskMappings, existingPlaneLink.id,
                               CompletePlaneOnly(existingPlaneLink, s))
                ELSE IF existingAsanaLink # NoRow
                THEN UpdateRow(taskMappings, existingAsanaLink.id,
                               CompleteAsanaOnly(existingAsanaLink, s))
                ELSE taskMappings \cup { Row(nextId, mappingId, p, NameOfPlane[p],
                                             a, NameOfAsana[a]) }
            linkedId == IF existingPlaneLink # NoRow THEN existingPlaneLink.id
                        ELSE IF existingAsanaLink # NoRow THEN existingAsanaLink.id
                        ELSE nextId
        IN  /\ request' = [op |-> "link", mappingId |-> mappingId,
                           planeTaskId |-> p, asanaTaskGid |-> a]
            /\ applyLog' = << >>
            /\ IF existingPlaneLink # NoRow /\ existingPlaneLink.asanaTaskGid # NULL
               THEN /\ response' = [status |-> 400, error |->
                                       "Plane task is already linked to another Asana task"]
                    /\ UNCHANGED << taskMappings, nextId >>
               ELSE IF existingAsanaLink # NoRow /\ existingAsanaLink.planeIssueId # NULL
               THEN /\ response' = [status |-> 400, error |->
                                       "Asana task is already linked to another Plane task"]
                    /\ UNCHANGED << taskMappings, nextId >>
               ELSE IF ViolatesUniqueIndex(newRows)
               THEN /\ response' = [status |-> 500, error |-> "Failed to link tasks"]
                    /\ UNCHANGED << taskMappings, nextId >>
               ELSE /\ response' = [status |-> 201, taskMappingId |-> linkedId]
                    /\ taskMappings' = newRows
                    /\ nextId' = IF linkedId = nextId THEN nextId + 1 ELSE nextId
            /\ UNCHANGED << matchVars, scoreVars, fetchVars, detectVars, bandVars, requestVars, syncVars >>
            /\ WithinBounds

\* POST /api/tasks: match the row taskMappingId to an Asana task
MatchTask ==
  /\ Idle
  /\
    \E taskMappingId \in 1..nextId, a \in LinkAsanaGids :
        LET row == FindRow(taskMappings, LAMBDA r : r.id = taskMappingId)
            newRows == UpdateRow(taskMappings, taskMappingId,
                                 [row EXCEPT !.asanaTaskGid = a,
                                             !.asanaTaskName = NameOfAsana[a]])
        IN  /\ request' = [op |-> "match", taskMappingId |-> taskMappingId,
                           asanaTaskGid |-> a]
            /\ applyLog' = << >>
            /\ IF row = NoRow \/ ViolatesUniqueIndex(newRows)
               THEN /\ response' = [status |-> 500, error |-> "Failed to match task"]
                    /\ UNCHANGED << taskMappings, nextId >>
               ELSE /\ response' = [status |-> 200, taskMappingId |-> taskMappingId]
                    /\ taskMappings' = newRows
                    /\ UNCHANGED nextId
            /\ UNCHANGED << matchVars, scoreVars, fetchVars, detectVars, bandVars, requestVars, syncVars >>
            /\ WithinBounds

\* POST /api/webhooks/plane, event "issue": action "create", or an update that
\* reaches the trigger state.  Both upsert the row of the issue.
PlaneWebhook ==
  /\ Idle
  /\
    \E mappingId \in ProjectMappingIds, p \in LinkPlaneIds, action \in { "create", "trigger" } :
        LET existing == FindRow(taskMappings, LAMBDA r : r.planeIssueId = p)
        IN  /\ request' = [op |-> "planeWebhook", mappingId |-> mappingId,
                           planeIssueId |-> p, action |-> action]
            /\ response' = [status |-> 200, received |-> TRUE]
            /\ applyLog' = << >>
            /\ taskMappings' =
                  IF existing # NoRow
                  THEN UpdateRow(taskMappings, existing.id,
                                 [existing EXCEPT !.planeIssueName = NameOfPlane[p]])
                  ELSE taskMappings \cup { Row(nextId, mappingId, p, NameOfPlane[p], NULL, NULL) }
            /\ nextId' = IF existing # NoRow THEN nextId ELSE nextId + 1
            /\ UNCHANGED << matchVars, scoreVars, fetchVars, detectVars, bandVars, requestVars, syncVars >>
            /\ WithinBounds

\* POST /api/webhooks/asana, a task "added" event
AsanaWebhook ==
  /\ Idle
  /\
    \E mappingId \in ProjectMappingIds, a \in LinkAsanaGids :
        LET existingMapping == FindRow(taskMappings, LAMBDA r : r.asanaTaskGid = a)
        IN  /\ request' = [op |-> "asanaWebhook", mappingId |-> mappingId, asanaTaskGid |-> a]
            /\ response' = [status |-> 200, received |-> TRUE]
            /\ applyLog' = << >>
            /\ IF existingMapping = NoRow
               THEN /\ taskMappings' = taskMappings \cup
                          { Row(nextId, mappingId, NULL, NULL, a, << "New task from Asana" >>) }
                    /\ nextId' = nextId + 1
               ELSE UNCHANGED << taskMappings, nextId >>
            /\ UNCHANGED << matchVars, scoreVars, fetchVars, detectVars, bandVars, requestVars, syncVars >>
            /\ WithinBounds

(***************************************************************************)
(* Imports.  Each requested id is handled inside its own try block; what   *)
(* the remote calls do is an input:                                        *)
(*   "fetchFails"   - reading the source record or creating the copy throws*)
(*   "commentFails" - the copy is made, copying the comments throws        *)
(*   "ok"           - no remote call throws                                *)
(***************************************************************************)
MaxImport == 1
RemoteOutcomes == { "ok", "fetchFails", "commentFails" }

\* The record an import creates in the other system gets an id that no row
\* holds yet.
UnusedPlaneIds(rows) == { p \in LinkPlaneIds : \A r \in rows : r.planeIssueId # p }
UnusedAsanaGids(rows) == { a \in LinkAsanaGids : \A r \in rows : r.asanaTaskGid # a }

\* one iteration of the import-to-asana loop
ImportOneToAsana(st, mappingId, p, outcome) ==
    LET gid == CHOOSE a \in UnusedAsanaGids(st.rows) : TRUE
        newRows == st.rows \cup { Row(st.nextId, mappingId, p, NameOfPlane[p],
                                      gid, NameOfPlane[p]) }
        failed == Append(st.errors, p)
    IN  IF outcome = "fetchFails" THEN [st EXCEPT !.errors = failed]
        ELSE IF ViolatesUniqueIndex(newRows) THEN [st EXCEPT !.errors = failed]
        ELSE [st EXCEPT !.rows = newRows, !.nextId = @ + 1,
                        !.imported = Append(@, p),
                        !.errors = IF outcome = "commentFails" THEN failed ELSE @]

\* one iteration of the import-from-asana loop
ImportOneFromAsana(st, mappingId, a, outcome) ==
    LET pid == CHOOSE p \in UnusedPlaneIds(st.rows) : TRUE
        newRows == st.rows \cup { Row(st.nextId, mappingId, pid, NameOfAsana[a],
                                      a, NameOfAsana[a]) }
        failed == Append(st.errors, a)
    IN  IF outcome = "fetchFails" THEN [st EXCEPT !.errors = failed]
        ELSE IF ViolatesUniqueIndex(newRows) THEN [st EXCEPT !.errors = failed]
        ELSE [st EXCEPT !.rows = newRows, !.nextId = @ + 1,
                        !.imported = Append(@, a),
                        !.errors = IF outcome = "commentFails" THEN failed ELSE @]

RECURSIVE ImportLoop(_, _, _, _, _)
ImportLoop(st, mappingId, ids, outcomes, target) ==
    IF ids = << >> THEN st
    ELSE ImportLoop(IF target = "asana"
                    THEN ImportOneToAsana(st, mappingId, Head(ids), Head(outcomes))
                    ELSE ImportOneFromAsana(st, mappingId, Head(ids), Head(outcomes)),
                    mappingId, Tail(ids), Tail(outcomes), target)

ImportStart ==
    [rows |-> taskMappings, nextId |-> nextId, imported |-> << >>, errors |-> << >>]

ImportResponse(st, total) ==
    [status |-> 200, imported |-> st.imported, errors |-> st.errors,
     summary |-> [total |-> total, success |-> Len(st.imported), failed |-> Len(st.errors)]]

\* POST /api/mappings/[mappingId]/import-to-asana
ImportToAsana ==
  /\ Idle
  /\
    \E mappingId \in ProjectMappingIds, ids \in SeqsUpTo(LinkPlaneIds, MaxImport) :
      \E outcomes \in [DOMAIN ids -> RemoteOutcomes] :
        LET st == ImportLoop(ImportStart, mappingId, ids, outcomes, "asana")
        IN  /\ Cardinality(UnusedAsanaGids(taskMappings)) >= Len(ids)
            /\ request' = [op |-> "importToAsana", mappingId |-> mappingId, ids |-> ids]
            /\ response' = ImportResponse(st, Len(ids))
            /\ applyLog' = << >>
            /\ taskMappings' = st.rows
            /\ nextId' = st.nextId
            /\ UNCHANGED << matchVars, scoreVars, fetchVars, detectVars, bandVars, requestVars, syncVars >>
            /\ WithinBounds

\* POST /api/mappings/[mappingId]/import-from-asana
ImportFromAsana ==
  /\ Idle
  /\
    \E mappingId \in ProjectMappingIds, ids \in SeqsUpTo(LinkAsanaGids, MaxImport) :
      \E outcomes \in [DOMAIN ids -> RemoteOutcomes] :
        LET st == ImportLoop(ImportStart, mappingId, ids, outcomes, "plane")
        IN  /\ Cardinality(UnusedPlaneIds(taskMappings)) >= Len(ids)
            /\ request' = [op |-> "importFromAsana", mappingId |-> mappingId, ids |-> ids]
            /\ response' = ImportResponse(st, Len(ids))
            /\ applyLog' = << >>
            /\ taskMappings' = st.rows
            /\ nextId' = st.nextId
            /\ UNCHANGED << matchVars, scoreVars, fetchVars, detectVars, bandVars, requestVars, syncVars >>
            /\ WithinBounds


LinkIdle ==
    /\ taskMappings = {}
    /\ nextId = 1
    /\ request = NoRequest
    /\ response = NoResponse
    /\ applyLog = << >>

MatchIdle ==
    /\ planeTasks = << >>
    /\ asanaTasks = << >>
    /\ alreadyLinkedPlaneIds = {}
    /\ alreadyLinkedAsanaGids = {}
    /\ minConfidence = Frac(1, 2)
    /\ suggestions = << >>
    /\ matchPc = "idle"

ScoreIdle ==
    /\ scoreSourceName = << >>
    /\ scoreSourceDescription = << >>
    /\ scoreTargets = << >>
    /\ scoreThreshold = Frac(3, 5)
    /\ returnedCandidates = << >>
    /\ returnedBestMatch = NoMatch
    /\ scorePc = "idle"

\* a null id of a task handed to fetchCommentCountsBatched, and onlyModified = null
NoId == << NULL, 0 >>
NoFilter == [planeIds |-> {NoId}, asanaIds |-> {NoId}]

FetchIdle ==
    /\ tasksToFetch = << >>
    /\ onlyModified = NoFilter
    /\ batchStart = 0
    /\ fetchPc = "idle"
    /\ inFlight = {}
    /\ planeComments = << >>
    /\ asanaComments = << >>
    /\ issued = {}
    /\ rejected = {}
    /\ delaysElapsed = {}

MaxRequests == 2
RequestIds == 1..MaxRequests

NotStarted ==
    [pc |-> "idle", mappingId |-> NULL, rows |-> {}, snapshots |-> {},
     planeIssueMap |-> << >>, asanaTaskMap |-> << >>,
     commentCounts |-> [plane |-> << >>, asana |-> << >>],
     report |-> [status |-> 0], changed |-> << >>, response |-> [status |-> 0]]

RequestIdle == running = [r \in RequestIds |-> NotStarted]

BandIdle ==
    /\ bandRule = "none"
    /\ bandScores = << >>
    /\ bandConfidences = << >>
    /\ bandPc = "idle"

\* no TaskMapping row yet for the pair
NoMapping ==
    [exists |-> FALSE, planeIssueId |-> NULL, asanaTaskGid |-> NULL,
     syncStatus |-> "UNMATCHED", lastSyncError |-> NULL]

NoSyncRequest == [op |-> "none", status |-> 0]

SyncIdle ==
    /\ syncMapping = NoMapping
    /\ planeIssueComments = << >>
    /\ asanaTaskStories = << >>
    /\ commentSync = {}
    /\ syncRequest = NoSyncRequest

NoRun == [op |-> "none"]

DetectIdle ==
    /\ projectMappings = ProjectMappingIds
    /\ remotePlane = << >>
    /\ remoteAsana = << >>
    /\ taskSnapshots = {}
    /\ changeLog = << >>
    /\ clock = 0
    /\ failures = 0
    /\ detectRun = NoRun

LinkInit == LinkIdle /\ MatchIdle /\ ScoreIdle /\ FetchIdle /\ DetectIdle /\ SyncIdle /\ RequestIdle /\ BandIdle

\* return NextResponse.json(...): the response reaches the caller
Respond ==
    /\ ~Idle
    /\ request' = NoRequest
    /\ response' = NoResponse
    /\ applyLog' = << >>
    /\ detectRun' = NoRun
    /\ UNCHANGED << taskMappings, nextId, matchVars, scoreVars, fetchVars, bandVars, requestVars, syncVars >>
    /\ UNCHANGED << projectMappings, remotePlane, remoteAsana, taskSnapshots, changeLog,
                    clock, failures >>

LinkNext ==
    \/ Respond
    \/ ApplySuggestions
    \/ ManualLink
    \/ MatchTask
    \/ PlaneWebhook
    \/ AsanaWebhook
    \/ ImportToAsana
    \/ ImportFromAsana

SpecLink == LinkInit /\ [][LinkNext]_vars

(***************************************************************************)
(* C4: at most one TaskMapping holds a given non-null planeIssueId and at  *)
(* most one holds a given non-null asanaTaskGid, after any sequence of     *)
(* link, bulk apply, task match, import and webhook operations.            *)
(***************************************************************************)
C4_OneToOne ==
    \A r1, r2 \in taskMappings :
        r1.id # r2.id =>
            /\ (r1.planeIssueId # NULL => r1.planeIssueId # r2.planeIssueId)
            /\ (r1.asanaTaskGid # NULL => r1.asanaTaskGid # r2.asanaTaskGid)

\* a write that the unique index stopped: matching a row to an Asana task that
\* another row holds
C4_Witness ==
    /\ request.op = "match"
    /\ response.status = 500
    /\ \E r1, r2 \in taskMappings :
          /\ r1.id = request.taskMappingId
          /\ r2.id # r1.id
          /\ r2.asanaTaskGid = request.asanaTaskGid

\* the suggestion or request names an id that a fully-linked row of rows holds
HeldByLinkedPair(rows, p, a) ==
    \E r \in rows :
        FullyLinked(r) /\ (r.planeIssueId = p \/ r.asanaTaskGid = a)

\* every fully-linked row of rows is in rows2 with the same two ids
LinksKept(rows, rows2) ==
    \A r \in rows :
        FullyLinked(r) =>
            \E r2 \in rows2 :
                /\ r2.id = r.id
                /\ r2.planeIssueId = r.planeIssueId
                /\ r2.asanaTaskGid = r.asanaTaskGid

AlreadyLinkedErrors ==
    { "Plane task is already linked to another Asana task",
      "Asana task is already linked to another Plane task" }

(***************************************************************************)
(* C5: an attempt to bind a Plane or Asana id that belongs to a            *)
(* fully-linked pair - by bulk acceptance, manual link or POST /api/tasks  *)
(* - is rejected with an 'already linked' reason, and no request changes   *)
(* the ids of an existing fully-linked pair.                               *)
(***************************************************************************)
C5_AlreadyLinkedRejected ==
    [][ /\ LinksKept(taskMappings, taskMappings')
        /\ (request'.op = "link"
              /\ HeldByLinkedPair(taskMappings, request'.planeTaskId, request'.asanaTaskGid))
             => (response'.status = 400 /\ response'.error \in AlreadyLinkedErrors)
        /\ (request'.op = "match"
              /\ \E r \in taskMappings :
                    /\ FullyLinked(r)
                    /\ r.id = request'.taskMappingId \/ r.asanaTaskGid = request'.asanaTaskGid)
             => (response'.status = 400 /\ response'.error \in AlreadyLinkedErrors)
        /\ (request'.op = "apply")
             => \A i \in DOMAIN applyLog' :
                   HeldByLinkedPair(applyLog'[i].before, applyLog'[i].suggestion.planeTaskId,
                                    applyLog'[i].suggestion.asanaTaskGid)
                     => /\ applyLog'[i].result.status = "skipped"
                        /\ applyLog'[i].result.reason = "Already linked"
      ]_vars

(***************************************************************************)
(* C6: accepting a suggestion (p, a) has exactly one of three outcomes:    *)
(* skipped with 'Already linked' and the store unchanged when p or a is in *)
(* a fully-linked pair; otherwise a one-sided pair holding p (or a) is     *)
(* completed with the missing id and name; otherwise a new fully-linked    *)
(* pair (p, a) is created.                                                 *)
(***************************************************************************)
C6_OutcomeOf(e) ==
    LET p == e.suggestion.planeTaskId
        a == e.suggestion.asanaTaskGid
        oneSided == { r \in e.before :
                        /\ ~FullyLinked(r)
                        /\ r.planeIssueId = p \/ r.asanaTaskGid = a }
        Completed(r2) ==
            /\ r2.planeIssueId = p /\ r2.planeIssueName = NameOfPlane[p]
            /\ r2.asanaTaskGid = a /\ r2.asanaTaskName # NULL
    IN  IF HeldByLinkedPair(e.before, p, a)
        THEN /\ e.result.status = "skipped"
             /\ e.result.reason = "Already linked"
             /\ e.after = e.before
        ELSE IF oneSided # {}
        THEN /\ e.result.status = "linked"
             /\ \E r \in oneSided : \E r2 \in e.after : r2.id = r.id /\ Completed(r2)
             /\ \A r2 \in e.after : \E r \in e.before : r2.id = r.id
        ELSE /\ e.result.status = "linked"
             /\ \E r2 \in e.after :
                   /\ Completed(r2)
                   /\ \A r \in e.before : r.id # r2.id
                   /\ e.after = e.before \cup { r2 }

C6_ThreeOutcomes == \A i \in DOMAIN applyLog : C6_OutcomeOf(applyLog[i])

(***************************************************************************)
(* C7: in a bulk apply the already-linked check of a suggestion reads the  *)
(* store as the earlier suggestions of the request left it: a suggestion   *)
(* naming the Plane task or the Asana task of an earlier suggestion that   *)
(* was linked, or of a pair of the project linked before the request, is   *)
(* skipped with 'Already linked' and changes nothing.                      *)
(***************************************************************************)
SharesTask(s1, s2) ==
    s1.planeTaskId = s2.planeTaskId \/ s1.asanaTaskGid = s2.asanaTaskGid

MatchInit ==
    /\ planeTasks \in SeqsUpTo(PlaneUniverse, MaxPlaneTasks)
    /\ asanaTasks \in SeqsUpTo(AsanaUniverse, MaxAsanaTasks)
    /\ alreadyLinkedPlaneIds \in { {}, {"p1"} }
    /\ alreadyLinkedAsanaGids \in { {}, {"a1"} }
    /\ minConfidence \in { Frac(1, 2), Frac(3, 5) }
    /\ suggestions = << >>
    /\ matchPc = "input"
    /\ ScoreIdle
    /\ FetchIdle
    /\ LinkIdle
    /\ DetectIdle
    /\ SyncIdle
    /\ RequestIdle
    /\ BandIdle

\* One call of autoMatchAllTasks
AutoMatchAll ==
    /\ matchPc = "input"
    /\ \E oracle \in FuseOracles(minConfidence) :
          suggestions' = autoMatchAllTasks(planeTasks, asanaTasks, alreadyLinkedPlaneIds,
                                           alreadyLinkedAsanaGids, minConfidence, oracle)
    /\ matchPc' = "done"
    /\ UNCHANGED << planeTasks, asanaTasks, alreadyLinkedPlaneIds,
                    alreadyLinkedAsanaGids, minConfidence >>
    /\ UNCHANGED << scoreVars, fetchVars, linkVars, detectVars, bandVars, requestVars, syncVars >>

\* the Asana tasks as MatchableTask[]
AsMatchable(aTasks) ==
    [i \in DOMAIN aTasks |->
        [gid |-> aTasks[i].gid, name |-> aTasks[i].name, description |-> aTasks[i].notes]]

\* the arguments of a call of the scorer for one Plane task of the input
ScoreArguments(planeTask, pc) ==
    /\ scoreSourceName' = planeTask.name
    /\ scoreSourceDescription' = planeTask.description
    /\ scoreTargets' = AsMatchable(asanaTasks)
    /\ scoreThreshold' = minConfidence
    /\ scorePc' = pc
    /\ matchPc' = "done"
    /\ UNCHANGED << planeTasks, asanaTasks, alreadyLinkedPlaneIds,
                    alreadyLinkedAsanaGids, minConfidence, suggestions >>
    /\ UNCHANGED << fetchVars, linkVars, detectVars, bandVars, requestVars, syncVars >>

\* One call of findMatches for a Plane task of the input
FindMatchesForTask ==
    /\ matchPc = "input"
    /\ \E i \in DOMAIN planeTasks :
          /\ ScoreArguments(planeTasks[i], "done")
          /\ returnedCandidates' = findMatches(planeTasks[i].name, AsMatchable(asanaTasks),
                                               minConfidence, planeTasks[i].description)
    /\ UNCHANGED returnedBestMatch

\* One call of getBestMatch for a Plane task of the input
GetBestMatchForTask ==
    /\ matchPc = "input"
    /\ \E i \in DOMAIN planeTasks, oracle \in FuseOracles(minConfidence) :
          /\ ScoreArguments(planeTasks[i], "best")
          /\ returnedBestMatch' = getBestMatch(planeTasks[i].name, AsMatchable(asanaTasks),
                                               minConfidence, planeTasks[i].description,
                                               oracle)
    /\ UNCHANGED returnedCandidates

MatchNext == AutoMatchAll \/ FindMatchesForTask \/ GetBestMatchForTask

SpecMatch == MatchInit /\ [][MatchNext]_vars

(***************************************************************************)
(* C1: one call of autoMatchAllTasks never returns two suggestions with    *)
(* the same asanaTaskGid, whatever the sizes of the two task lists.        *)
(***************************************************************************)
C1_DistinctTargets ==
    matchPc = "done" =>
        \A i, j \in DOMAIN suggestions :
            i # j => suggestions[i].asanaTaskGid # suggestions[j].asanaTaskGid

\* two different Plane tasks with the same normalized name competed for the
\* targets and both were given one
C1_Witness ==
    /\ matchPc = "done"
    /\ Len(planeTasks) = 2
    /\ planeTasks[1].id # planeTasks[2].id
    /\ normalizeText(planeTasks[1].name) = normalizeText(planeTasks[2].name)
    /\ Len(suggestions) = 2

(***************************************************************************)
(* Change detection: GET and POST /api/mappings/[mappingId]/changes, and   *)
(* DELETE /api/mappings/[mappingId]/changes/history.                       *)
(*                                                                         *)
(* The remote projects hold one record per linked id.  A record gone from  *)
(* its project has present = FALSE.  Times are the values of clock; a      *)
(* record without a timestamp has NoTime.  Texts are sequences of tokens;  *)
(* an absent text is NoText.  The batching of the comment fetches (groups  *)
(* of BATCH_SIZE, BATCH_DELAY between them) does not change what one call  *)
(* records and is not part of these definitions.                           *)
(***************************************************************************)
MaxEdits == 1
MaxFailures == 1

NoTime == -1
NoText == << NULL >>

HtmlTags == { "<p>", "</p>" }

HtmlEntities == { "&nbsp;", "&amp;", "&lt;", "&gt;", "&quot;" }

EntityText(tok) ==
    CASE tok = "&nbsp;" -> " "
      [] tok = "&amp;"  -> "&"
      [] tok = "&lt;"   -> "<"
      [] tok = "&gt;"   -> ">"
      [] tok = "&quot;" -> "\""

stripHtml(html) ==
    IF html = NoText \/ html = << >> THEN << >>
    ELSE LET noTags == [i \in DOMAIN html |->
                           IF html[i] \in HtmlTags THEN " "
                           ELSE IF html[i] \in HtmlEntities THEN EntityText(html[i])
                           ELSE html[i]]
         IN  TrimRight(TrimLeft(CollapseSpaces(noTags)))

\* the values a remote edit gives a field, in turn
NameValues == << "Fix login bug", "Fix login page" >>
HtmlValues == << NoText, << "<p>", "x", "</p>" >>, << "x", "&nbsp;" >>, << "<p>", "</p>" >> >>
NotesValues == << NoText, << "x" >>, << >> >>
StateValues == << "Open", "Done" >>

NextIn(values, v) ==
    IF \E i \in DOMAIN values : values[i] = v
    THEN LET i == CHOOSE k \in DOMAIN values : values[k] = v
         IN  values[(i % Len(values)) + 1]
    ELSE values[1]

PlaneIssue(name, html, state, at, comments) ==
    [present |-> TRUE, name |-> name, description_html |-> html, state_name |-> state,
     updated_at |-> at, comments |-> comments]

AsanaTask(name, notes, completed, at, comments) ==
    [present |-> TRUE, name |-> name, notes |-> notes, completed |-> completed,
     modified_at |-> at, comments |-> comments]

\* planeClient.listIssues: the issues of the project, each with its
\* description_stripped
listIssues ==
    [id \in { i \in DOMAIN remotePlane : remotePlane[i].present } |->
        [id |-> id,
         name |-> remotePlane[id].name,
         description_stripped |-> stripHtml(remotePlane[id].description_html),
         state_name |-> remotePlane[id].state_name,
         updated_at |-> remotePlane[id].updated_at]]

\* asanaClient.listTasks: the tasks of the project
listTasks ==
    [gid \in { g \in DOMAIN remoteAsana : remoteAsana[g].present } |->
        [gid |-> gid,
         name |-> remoteAsana[gid].name,
         notes |-> remoteAsana[gid].notes,
         completed |-> remoteAsana[gid].completed,
         modified_at |-> remoteAsana[gid].modified_at]]

\* x || ""
OrEmpty(text) == IF text = NoText THEN << >> ELSE text

\* planeIssue.state_detail?.name || null
currentStateOf(planeIssue) ==
    IF planeIssue.state_name = "" THEN NULL ELSE planeIssue.state_name

NoSnapshot == [taskMappingId |-> 0]

SnapshotOf(snapshots, id) ==
    IF \E sn \in snapshots : sn.taskMappingId = id
    THEN CHOOSE sn \in snapshots : sn.taskMappingId = id
    ELSE NoSnapshot

\* findMany where projectMappingId, planeIssueId not null, asanaTaskGid not null
LinkedRows(mappingId) ==
    { r \in taskMappings : r.projectMappingId = mappingId /\ FullyLinked(r) }

\* the rows in the order the loops visit them
RECURSIVE RowsInOrder(_)
RowsInOrder(rows) ==
    IF rows = {} THEN << >>
    ELSE LET first == CHOOSE r \in rows : \A r2 \in rows : r.id <= r2.id
         IN  << first >> \o RowsInOrder(rows \ { first })

\* fetchCommentCountsBatched: one fetch per id asked for; a fetch that fails
\* is recorded as 0
fetchCommentCountsBatched(planeIds, asanaIds, failed) ==
    [plane |-> [id \in planeIds |->
                   IF id \in failed \/ ~remotePlane[id].present
                   THEN 0 ELSE remotePlane[id].comments],
     asana |-> [gid \in asanaIds |->
                   IF gid \in failed \/ ~remoteAsana[gid].present
                   THEN 0 ELSE remoteAsana[gid].comments]]

\* first pass of GET: new Date(updated_at) > snapshot.planeModifiedAt, and
\* modified when either timestamp is absent
AlwaysModified(planeIssue, snapshot) == TRUE
planeModified(planeIssue, snapshot) ==
    IF planeIssue.updated_at # NoTime /\ snapshot.planeModifiedAt # NoTime
    THEN planeIssue.updated_at > snapshot.planeModifiedAt
    ELSE TRUE

BothPresent(tm, planeIssueMap, asanaTaskMap) ==
    tm.planeIssueId \in DOMAIN planeIssueMap /\ tm.asanaTaskGid \in DOMAIN asanaTaskMap

\* missingCount++; continue
SkipUncounted(acc) == acc
CountMissing(acc) == [acc EXCEPT !.missingCount = @ + 1]

modifiedPlaneIds(rows, planeIssueMap, asanaTaskMap, snapshots) ==
    { tm.planeIssueId : tm \in
        { r \in rows :
            /\ BothPresent(r, planeIssueMap, asanaTaskMap)
            /\ SnapshotOf(snapshots, r.id) # NoSnapshot
            /\ planeModified(planeIssueMap[r.planeIssueId], SnapshotOf(snapshots, r.id)) } }

asanaIdsIfModified(rows, planeIssueMap, asanaTaskMap, snapshots) ==
    { tm.asanaTaskGid : tm \in
        { r \in rows :
            /\ BothPresent(r, planeIssueMap, asanaTaskMap)
            /\ SnapshotOf(snapshots, r.id) # NoSnapshot
            /\ asanaTaskMap[r.asanaTaskGid].modified_at
                   > SnapshotOf(snapshots, r.id).asanaModifiedAt } }

\* snapshot.asanaCommentsCount !== null holds for every snapshot: the column
\* is INTEGER NOT NULL
asanaIdsToCheck(rows, planeIssueMap, asanaTaskMap, snapshots) ==
    { tm.asanaTaskGid : tm \in
        { r \in rows :
            /\ BothPresent(r, planeIssueMap, asanaTaskMap)
            /\ SnapshotOf(snapshots, r.id) # NoSnapshot } }

\* s.substring(0, 100) + (s.length > 100 ? "..." : "")
Truncated(text) ==
    IF Len(text) > 100 THEN SubSeq(text, 1, 100) \o << "..." >> ELSE text

\* `${n} comments`
CommentsText(n) == << n, " comments" >>

CompletedText(completed) == IF completed THEN "Completed" ELSE "Open"

createChange(tm, planeIssue, asanaTask, field, oldValue, newValue, source, changedAt) ==
    [taskMappingId |-> tm.id,
     planeIssueId |-> tm.planeIssueId, planeIssueName |-> planeIssue.name,
     asanaTaskGid |-> tm.asanaTaskGid, asanaTaskName |-> asanaTask.name,
     field |-> field, oldValue |-> oldValue, newValue |-> newValue,
     source |-> source, changedAt |-> changedAt]

Fetched(counts, id) == id \in DOMAIN counts

\* commentCounts.plane.get(id): the count recorded for the id, or undefined
\* (a count is never negative)
Undefined == -1
GetOrZero(counts, id) == IF id \in DOMAIN counts THEN counts[id] ELSE 0
Get(counts, id) == IF id \in DOMAIN counts THEN counts[id] ELSE Undefined

planeStateNeverDiffers(snapshot, planeIssue) == FALSE
planeStateDiffers(snapshot, planeIssue) ==
    snapshot.planeState # currentStateOf(planeIssue)

\* GET, "Check Plane changes": name, description, state, comments
PlaneChangesOf(tm, planeIssue, asanaTask, snapshot, commentCounts) ==
    LET at == planeIssue.updated_at
        currentPlaneComments == Get(commentCounts.plane, tm.planeIssueId)
        currentPlaneDesc == OrEmpty(planeIssue.description_stripped)
        snapshotPlaneDesc == OrEmpty(snapshot.planeDescription)
        Change(field, old, new) ==
            << createChange(tm, planeIssue, asanaTask, field, old, new, "plane", at) >>
    IN  (IF snapshot.planeName # planeIssue.name
         THEN Change("name", << snapshot.planeName >>, << planeIssue.name >>)
         ELSE << >>)
        \o
        (IF snapshotPlaneDesc # currentPlaneDesc
         THEN Change("description", Truncated(snapshotPlaneDesc), Truncated(currentPlaneDesc))
         ELSE << >>)
        \o
        (IF planeStateDiffers(snapshot, planeIssue)
         THEN Change("state", << snapshot.planeState >>, << currentStateOf(planeIssue) >>)
         ELSE << >>)
        \o
        (IF /\ currentPlaneComments # Undefined
            /\ snapshot.planeCommentsCount # currentPlaneComments
         THEN Change("comments", CommentsText(snapshot.planeCommentsCount),
                     CommentsText(currentPlaneComments))
         ELSE << >>)

\* GET, "Check Asana changes": name, description, completed, comments
AsanaChangesOf(tm, planeIssue, asanaTask, snapshot, commentCounts) ==
    LET at == asanaTask.modified_at
        currentAsanaComments == Get(commentCounts.asana, tm.asanaTaskGid)
        currentAsanaDesc == OrEmpty(asanaTask.notes)
        snapshotAsanaDesc == OrEmpty(snapshot.asanaDescription)
        Change(field, old, new) ==
            << createChange(tm, planeIssue, asanaTask, field, old, new, "asana", at) >>
    IN  (IF snapshot.asanaName # asanaTask.name
         THEN Change("name", << snapshot.asanaName >>, << asanaTask.name >>)
         ELSE << >>)
        \o
        (IF snapshotAsanaDesc # currentAsanaDesc
         THEN Change("description", Truncated(snapshotAsanaDesc), Truncated(currentAsanaDesc))
         ELSE << >>)
        \o
        (IF snapshot.asanaCompleted # asanaTask.completed
         THEN Change("completed", << CompletedText(snapshot.asanaCompleted) >>,
                     << CompletedText(asanaTask.completed) >>)
         ELSE << >>)
        \o
        (IF /\ currentAsanaComments # Undefined
            /\ snapshot.asanaCommentsCount # currentAsanaComments
         THEN Change("comments", CommentsText(snapshot.asanaCommentsCount),
                     CommentsText(currentAsanaComments))
         ELSE << >>)

\* GET, "No snapshot yet": the single "new" entry, on the Plane list
NoNewEntry(tm, planeIssue, asanaTask, now) == << >>
NewEntry(tm, planeIssue, asanaTask, now) ==
    << createChange(tm, planeIssue, asanaTask, "new", << NULL >>,
                    << "New linked task - click Take Snapshot to start tracking" >>,
                    "plane", now) >>

\* GET, the loop over the task mappings: the two change lists and missingCount
RECURSIVE CompareLoop(_, _, _, _, _, _, _)
CompareLoop(todo, planeIssueMap, asanaTaskMap, snapshots, commentCounts, now, acc) ==
    IF todo = << >> THEN acc
    ELSE LET tm == Head(todo)
             snapshot == SnapshotOf(snapshots, tm.id)
             planeIssue == planeIssueMap[tm.planeIssueId]
             asanaTask == asanaTaskMap[tm.asanaTaskGid]
             next ==
                 IF ~BothPresent(tm, planeIssueMap, asanaTaskMap)
                 THEN CountMissing(acc)
                 ELSE IF snapshot # NoSnapshot
                 THEN [acc EXCEPT
                         !.planeChanges = @ \o PlaneChangesOf(tm, planeIssue, asanaTask,
                                                             snapshot, commentCounts),
                         !.asanaChanges = @ \o AsanaChangesOf(tm, planeIssue, asanaTask,
                                                             snapshot, commentCounts)]
                 ELSE [acc EXCEPT
                         !.planeChanges = @ \o NewEntry(tm, planeIssue, asanaTask, now)]
         IN  CompareLoop(Tail(todo), planeIssueMap, asanaTaskMap, snapshots,
                         commentCounts, now, next)

\* the create/update data of taskSnapshot.upsert
SnapshotData(tm, planeIssue, asanaTask, planeCommentsCount, asanaCommentsCount) ==
    [taskMappingId |-> tm.id,
     planeName |-> planeIssue.name,
     planeDescription |-> OrEmpty(planeIssue.description_stripped),
     planeState |-> currentStateOf(planeIssue),
     planeModifiedAt |-> planeIssue.updated_at,
     planeCommentsCount |-> planeCommentsCount,
     asanaName |-> asanaTask.name,
     asanaDescription |-> OrEmpty(asanaTask.notes),
     asanaCompleted |-> asanaTask.completed,
     asanaModifiedAt |-> asanaTask.modified_at,
     asanaCommentsCount |-> asanaCommentsCount]

\* taskSnapshot.upsert where taskMappingId
Upsert(snapshots, data) ==
    { sn \in snapshots : sn.taskMappingId # data.taskMappingId } \cup { data }

\* a ?? 0: the stored count is not consulted
FetchedOrZero(counts, id, snapshot, stored) ==
    IF Fetched(counts, id) THEN counts[id] ELSE 0
\* a ?? b ?? 0 over the fetched count and the stored one
CountOr(counts, id, snapshot, stored) ==
    IF Fetched(counts, id) THEN counts[id]
    ELSE IF snapshot # NoSnapshot THEN stored
    ELSE 0

KeepSnapshots(snapshots, changed, planeIssueMap, asanaTaskMap, commentCounts) == snapshots
\* the snapshots of the pairs without a logged change are removed
KeepChangedOnly(snapshots, changed, planeIssueMap, asanaTaskMap, commentCounts) ==
    { sn \in snapshots : \E i \in DOMAIN changed : changed[i].id = sn.taskMappingId }
\* GET, "Update snapshots for tasks that had changes"
\* the data of the upsert of one changed pair; old is tm.snapshot, the
\* snapshot that the request loaded with the task mapping
UpsertDataOf(tm, old, planeIssueMap, asanaTaskMap, commentCounts) ==
    SnapshotData(tm, planeIssueMap[tm.planeIssueId], asanaTaskMap[tm.asanaTaskGid],
        CountOr(commentCounts.plane, tm.planeIssueId, old,
                IF old # NoSnapshot THEN old.planeCommentsCount ELSE 0),
        CountOr(commentCounts.asana, tm.asanaTaskGid, old,
                IF old # NoSnapshot THEN old.asanaCommentsCount ELSE 0))

RECURSIVE UpdateSnapshots(_, _, _, _, _)
UpdateSnapshots(snapshots, changed, planeIssueMap, asanaTaskMap, commentCounts) ==
    IF changed = << >> THEN snapshots
    ELSE LET tm == Head(changed)
             old == SnapshotOf(snapshots, tm.id)
             data == UpsertDataOf(tm, old, planeIssueMap, asanaTaskMap, commentCounts)
         IN  UpdateSnapshots(IF BothPresent(tm, planeIssueMap, asanaTaskMap)
                             THEN Upsert(snapshots, data) ELSE snapshots,
                             Tail(changed), planeIssueMap, asanaTaskMap, commentCounts)

\* the comment fetches a call issues: the ones that can fail
DetectFetches(mappingId, listingThrows) ==
    IF listingThrows THEN {}
    ELSE modifiedPlaneIds(LinkedRows(mappingId), listIssues, listTasks, taskSnapshots)
         \cup asanaIdsToCheck(LinkedRows(mappingId), listIssues, listTasks, taskSnapshots)

\* the fetches of one call that fail
FailuresOf(fetches) ==
    { f \in SUBSET fetches : failures + Cardinality(f) <= MaxFailures }

SnapshotFetches(mappingId, listingThrows) ==
    IF listingThrows THEN {}
    ELSE { r.planeIssueId : r \in { x \in LinkedRows(mappingId) : remotePlane[x.planeIssueId].present } }
         \cup { r.asanaTaskGid : r \in { x \in LinkedRows(mappingId) : remoteAsana[x.asanaTaskGid].present } }

EmptyCounts == [plane |-> << >>, asana |-> << >>]

\* prisma.changeLog.createMany({ data }): the rows are inserted after the ones
\* the table holds
Overwrite(log, rows) == rows
createMany(log, rows) == log \o rows

\* .filter(c => c.field !== "new")
AnyEntry(c) == TRUE
Loggable(c) == c.field # "new"

\* the task mappings named by changedTaskIds
ChangedPairs(rowsInOrder, allChanges) ==
    SelectSeq(rowsInOrder, LAMBDA tm : \E i \in DOMAIN allChanges :
                                          allChanges[i].taskMappingId = tm.id)

\* GET /api/mappings/[mappingId]/changes
detectChanges(mappingId, listingThrows, failed) ==
    LET rows == LinkedRows(mappingId)
        planeIssueMap == listIssues
        asanaTaskMap == listTasks
        planeIds == modifiedPlaneIds(rows, planeIssueMap, asanaTaskMap, taskSnapshots)
        asanaIds == asanaIdsToCheck(rows, planeIssueMap, asanaTaskMap, taskSnapshots)
        commentCounts == fetchCommentCountsBatched(planeIds, asanaIds, failed)
        compared == CompareLoop(RowsInOrder(rows), planeIssueMap, asanaTaskMap, taskSnapshots,
                                commentCounts, clock,
                                [planeChanges |-> << >>, asanaChanges |-> << >>,
                                 missingCount |-> 0])
        allChanges == SelectSeq(compared.planeChanges \o compared.asanaChanges, Loggable)
        logRows == [i \in DOMAIN allChanges |->
                       [projectMappingId |-> mappingId, change |-> allChanges[i]]]
        changed == ChangedPairs(RowsInOrder(rows), allChanges)
        Run(counts) == [op |-> "detect", mappingId |-> mappingId,
                        snapshots |-> taskSnapshots, commentCounts |-> counts]
    IN  IF mappingId \notin projectMappings
        THEN [response |-> [status |-> 404, error |-> "Mapping not found"],
              snapshots |-> taskSnapshots, changeLog |-> changeLog,
              run |-> Run(EmptyCounts)]
        ELSE IF rows = {}
        THEN [response |-> [status |-> 200, planeChanges |-> << >>, asanaChanges |-> << >>,
                            summary |-> [planeChanges |-> 0, asanaChanges |-> 0,
                                         totalLinked |-> 0]],
              snapshots |-> taskSnapshots, changeLog |-> changeLog,
              run |-> Run(EmptyCounts)]
        ELSE IF listingThrows
        THEN [response |-> [status |-> 500, error |-> "Failed to detect changes"],
              snapshots |-> taskSnapshots, changeLog |-> changeLog,
              run |-> Run(EmptyCounts)]
        ELSE [response |-> [status |-> 200,
                            planeChanges |-> compared.planeChanges,
                            asanaChanges |-> compared.asanaChanges,
                            summary |-> [planeChanges |-> Len(compared.planeChanges),
                                         asanaChanges |-> Len(compared.asanaChanges),
                                         totalLinked |-> Cardinality(rows),
                                         missing |-> compared.missingCount,
                                         logged |-> Len(allChanges)]],
              snapshots |-> IF allChanges = << >> THEN taskSnapshots
                            ELSE UpdateSnapshots(taskSnapshots, changed, planeIssueMap,
                                                 asanaTaskMap, commentCounts),
              changeLog |-> createMany(changeLog, logRows),
              run |-> Run(commentCounts)]

DetectChanges ==
    /\ \E mappingId \in ProjectMappingIds, listingThrows \in BOOLEAN :
       \E failed \in FailuresOf(DetectFetches(mappingId, listingThrows)) :
          LET out == detectChanges(mappingId, listingThrows, failed)
          IN  /\ request' = [op |-> "detect", mappingId |-> mappingId]
              /\ response' = out.response
              /\ taskSnapshots' = out.snapshots
              /\ changeLog' = out.changeLog
              /\ detectRun' = out.run
              /\ failures' = failures + Cardinality(failed)
    /\ UNCHANGED << projectMappings, remotePlane, remoteAsana, clock >>
    /\ UNCHANGED << taskMappings, nextId, applyLog, matchVars, scoreVars, fetchVars, bandVars, requestVars, syncVars >>

\* POST, the loop over the task mappings
RECURSIVE SnapshotLoop(_, _, _, _, _)
SnapshotLoop(todo, planeIssueMap, asanaTaskMap, commentCounts, acc) ==
    IF todo = << >> THEN acc
    ELSE LET tm == Head(todo)
             data == SnapshotData(tm, planeIssueMap[tm.planeIssueId],
                                  asanaTaskMap[tm.asanaTaskGid],
                                  CountOr(commentCounts.plane, tm.planeIssueId, NoSnapshot, 0),
                                  CountOr(commentCounts.asana, tm.asanaTaskGid, NoSnapshot, 0))
             next ==
                 IF ~BothPresent(tm, planeIssueMap, asanaTaskMap)
                 THEN CountMissing(acc)
                 ELSE [acc EXCEPT !.snapshots = Upsert(@, data),
                                  !.snapshotCount = @ + 1]
         IN  SnapshotLoop(Tail(todo), planeIssueMap, asanaTaskMap, commentCounts, next)

\* POST /api/mappings/[mappingId]/changes
takeSnapshot(mappingId, listingThrows, failed) ==
    LET rows == LinkedRows(mappingId)
        commentCounts ==
            fetchCommentCountsBatched({ r.planeIssueId : r \in rows },
                                      { r.asanaTaskGid : r \in rows }, failed)
        done == SnapshotLoop(RowsInOrder(rows), listIssues, listTasks, commentCounts,
                             [snapshots |-> taskSnapshots, snapshotCount |-> 0,
                              missingCount |-> 0])
        Run(counts) == [op |-> "snapshot", mappingId |-> mappingId,
                        snapshots |-> taskSnapshots, commentCounts |-> counts]
    IN  IF mappingId \notin projectMappings
        THEN [response |-> [status |-> 404, error |-> "Mapping not found"],
              snapshots |-> taskSnapshots, run |-> Run(EmptyCounts)]
        ELSE IF listingThrows
        THEN [response |-> [status |-> 500, error |-> "Failed to create snapshots"],
              snapshots |-> taskSnapshots, run |-> Run(EmptyCounts)]
        ELSE [response |-> [status |-> 200, snapshotCount |-> done.snapshotCount,
                            missingCount |-> done.missingCount],
              snapshots |-> done.snapshots, run |-> Run(commentCounts)]

TakeSnapshot ==
    /\ \E mappingId \in { "m1" }, listingThrows \in BOOLEAN :
       \E failed \in FailuresOf(SnapshotFetches(mappingId, listingThrows)) :
          LET out == takeSnapshot(mappingId, listingThrows, failed)
          IN  /\ request' = [op |-> "snapshot", mappingId |-> mappingId]
              /\ response' = out.response
              /\ taskSnapshots' = out.snapshots
              /\ detectRun' = out.run
              /\ failures' = failures + Cardinality(failed)
    /\ UNCHANGED << projectMappings, remotePlane, remoteAsana, clock, changeLog >>
    /\ UNCHANGED << taskMappings, nextId, applyLog, matchVars, scoreVars, fetchVars, bandVars, requestVars, syncVars >>

\* DELETE /api/mappings/[mappingId]/changes/history
ClearHistory ==
    /\ \E mappingId \in { "m1" } :
          LET kept == SelectSeq(changeLog, LAMBDA row : row.projectMappingId # mappingId)
          IN  /\ request' = [op |-> "clearHistory", mappingId |-> mappingId]
              /\ response' = [status |-> 200, deletedCount |-> Len(changeLog) - Len(kept)]
              /\ changeLog' = kept
              /\ detectRun' = [op |-> "clearHistory"]
    /\ UNCHANGED << projectMappings, remotePlane, remoteAsana, clock, failures,
                    taskSnapshots >>
    /\ UNCHANGED << taskMappings, nextId, applyLog, matchVars, scoreVars, fetchVars, bandVars, requestVars, syncVars >>

\* DELETE /api/projects/[mappingId]: the ProjectMapping row goes and, by ON
\* DELETE CASCADE, its TaskMapping rows, their TaskSnapshot rows and its
\* ChangeLog rows; deleting a row that does not exist throws
DeleteProject ==
    /\ \E mappingId \in ProjectMappingIds :
          LET gone == { r.id : r \in { x \in taskMappings : x.projectMappingId = mappingId } }
          IN  /\ request' = [op |-> "deleteProject", mappingId |-> mappingId]
              /\ response' = IF mappingId \in projectMappings
                             THEN [status |-> 200, success |-> TRUE]
                             ELSE [status |-> 500, error |-> "Failed to delete project mapping"]
              /\ projectMappings' = projectMappings \ { mappingId }
              /\ taskMappings' = { r \in taskMappings : r.id \notin gone }
              /\ taskSnapshots' = { sn \in taskSnapshots : sn.taskMappingId \notin gone }
              /\ changeLog' = SelectSeq(changeLog,
                                        LAMBDA row : row.projectMappingId # mappingId)
              /\ detectRun' = [op |-> "deleteProject"]
    /\ UNCHANGED << remotePlane, remoteAsana, clock, failures >>
    /\ UNCHANGED << nextId, applyLog, matchVars, scoreVars, fetchVars, bandVars, requestVars, syncVars >>

(***************************************************************************)
(* The remote systems: their users edit, comment on and delete records.    *)
(* A comment on a Plane issue moves its updated_at; a comment on an Asana  *)
(* task is a story and leaves modified_at alone.  Whether an edit of a     *)
(* Plane field leaves a timestamp later than the one the snapshot read is  *)
(* the remote system's matter: both outcomes are taken.                    *)
(***************************************************************************)
Touched(at) == IF at = NoTime THEN NoTime ELSE at + 1

RemoteEdit ==
    /\ clock < MaxEdits
    /\ clock' = clock + 1
    /\ request' = NoRequest
    /\ response' = NoResponse
    /\ detectRun' = NoRun
    /\ UNCHANGED << projectMappings, taskSnapshots, changeLog, failures >>
    /\ UNCHANGED << taskMappings, nextId, applyLog, matchVars, scoreVars, fetchVars, bandVars, requestVars, syncVars >>

EditPlaneIssue ==
    /\ RemoteEdit
    /\ \E id \in DOMAIN remotePlane, field \in { "name", "description_html", "state_name" },
          stamped \in BOOLEAN :
          LET issue == remotePlane[id]
              edited ==
                  CASE field = "name" ->
                         [issue EXCEPT !.name = NextIn(NameValues, @)]
                    [] field = "description_html" ->
                         [issue EXCEPT !.description_html = NextIn(HtmlValues, @)]
                    [] field = "state_name" ->
                         [issue EXCEPT !.state_name = NextIn(StateValues, @)]
          IN  /\ issue.present
              /\ remotePlane' = [remotePlane EXCEPT
                                    ![id] = [edited EXCEPT !.updated_at =
                                                IF stamped THEN Touched(@) ELSE @]]
    /\ UNCHANGED remoteAsana

CommentOnPlaneIssue ==
    /\ RemoteEdit
    /\ \E id \in DOMAIN remotePlane :
          /\ remotePlane[id].present
          /\ remotePlane' = [remotePlane EXCEPT ![id].comments = @ + 1,
                                                ![id].updated_at = Touched(@)]
    /\ UNCHANGED remoteAsana

DeletePlaneIssue ==
    /\ RemoteEdit
    /\ \E id \in DOMAIN remotePlane :
          /\ remotePlane[id].present
          /\ remotePlane' = [remotePlane EXCEPT ![id].present = FALSE]
    /\ UNCHANGED remoteAsana

EditAsanaTask ==
    /\ RemoteEdit
    /\ \E gid \in DOMAIN remoteAsana, field \in { "name", "notes", "completed" } :
          LET task == remoteAsana[gid]
              edited ==
                  CASE field = "name" -> [task EXCEPT !.name = NextIn(NameValues, @)]
                    [] field = "notes" -> [task EXCEPT !.notes = NextIn(NotesValues, @)]
                    [] field = "completed" -> [task EXCEPT !.completed = ~@]
          IN  /\ task.present
              /\ remoteAsana' = [remoteAsana EXCEPT
                                    ![gid] = [edited EXCEPT !.modified_at = Touched(@)]]
    /\ UNCHANGED remotePlane

CommentOnAsanaTask ==
    /\ RemoteEdit
    /\ \E gid \in DOMAIN remoteAsana :
          /\ remoteAsana[gid].present
          /\ remoteAsana' = [remoteAsana EXCEPT ![gid].comments = @ + 1]
    /\ UNCHANGED remotePlane

DeleteAsanaTask ==
    /\ RemoteEdit
    /\ \E gid \in DOMAIN remoteAsana :
          /\ remoteAsana[gid].present
          /\ remoteAsana' = [remoteAsana EXCEPT ![gid].present = FALSE]
    /\ UNCHANGED remotePlane

\* two pairs of project m1 were linked, no snapshot was taken yet
Init ==
    /\ taskMappings = { Row(1, "m1", "p1", NameOfPlane["p1"], "a1", NameOfAsana["a1"]),
                        Row(2, "m1", "p2", NameOfPlane["p2"], "a2", NameOfAsana["a2"]) }
    /\ nextId = 3
    /\ request = NoRequest
    /\ response = NoResponse
    /\ applyLog = << >>
    /\ MatchIdle
    /\ ScoreIdle
    /\ FetchIdle
    /\ BandIdle
    /\ RequestIdle
    /\ SyncIdle
    /\ projectMappings = ProjectMappingIds
    /\ remotePlane =
          [id \in LinkPlaneIds |->
              IF id = "p1"
              THEN PlaneIssue("Fix login bug", NoText, "Open", 0, 1)
              ELSE PlaneIssue("Fix login page", << "<p>", "x", "</p>" >>, NULL, NoTime, 0)]
    /\ remoteAsana =
          [gid \in LinkAsanaGids |->
              IF gid = "a1"
              THEN AsanaTask("Fix login bug", NoText, FALSE, 0, 1)
              ELSE AsanaTask("Fix login page", << "x" >>, FALSE, 0, 1)]
    /\ taskSnapshots = {}
    /\ changeLog = << >>
    /\ clock = 0
    /\ failures = 0
    /\ detectRun = NoRun

Next ==
    \/ DetectChanges
    \/ TakeSnapshot
    \/ ClearHistory
    \/ DeleteProject
    \/ EditPlaneIssue
    \/ CommentOnPlaneIssue
    \/ DeletePlaneIssue
    \/ EditAsanaTask
    \/ CommentOnAsanaTask
    \/ DeleteAsanaTask

Spec == Init /\ [][Next]_vars

\* the request just answered was a detection that returned its report
Detected == request.op = "detect" /\ response.status = 200

\* the step is a detection of the same mapping that returned its report, and
\* the remote records are as the previous call read them
DetectsAgain ==
    /\ request'.op = "detect"
    /\ request'.mappingId = request.mappingId
    /\ response'.status = 200
    /\ remotePlane' = remotePlane
    /\ remoteAsana' = remoteAsana

FieldRecords(changes) == SelectSeq(changes, LAMBDA c : c.field # "new")

RecordsOf(changes, id) == SelectSeq(changes, LAMBDA c : c.taskMappingId = id)

(***************************************************************************)
(* C2: a detection that directly follows a detection of the same mapping,  *)
(* no snapshot taken and no remote record edited in between, reports no    *)
(* change record.  The "new" entries of pairs without a snapshot are not   *)
(* counted: they are never logged.                                         *)
(***************************************************************************)
C2_SecondDetectionIsEmpty ==
    [][ (Detected /\ DetectsAgain)
          => /\ FieldRecords(response'.planeChanges) = << >>
             /\ FieldRecords(response'.asanaChanges) = << >> ]_vars

(***************************************************************************)
(* C3: a detection that directly follows a snapshot of the same mapping,   *)
(* no remote record edited in between, reports no change for any pair     *)
(* that has a snapshot.                                                    *)
(***************************************************************************)
C3_DetectionAfterSnapshotIsEmpty ==
    [][ (request.op = "snapshot" /\ response.status = 200 /\ DetectsAgain)
          => \A sn \in taskSnapshots :
                /\ RecordsOf(response'.planeChanges, sn.taskMappingId) = << >>
                /\ RecordsOf(response'.asanaChanges, sn.taskMappingId) = << >> ]_vars

\* the pairs of the mapping whose two records the detection found in the
\* listings (no record was edited since: an edit clears the request)
ComparedPairs ==
    { tm \in LinkedRows(request.mappingId) :
        remotePlane[tm.planeIssueId].present /\ remoteAsana[tm.asanaTaskGid].present }

TrackedFields == { "name", "description", "state", "completed", "comments" }

\* the tracked field differs between the snapshot the run loaded and the live
\* record; for comments, the live value is the count the run recorded for
\* the side, when it fetched one
Differs(tm, snapshot, source, field) ==
    LET issue == remotePlane[tm.planeIssueId]
        task == remoteAsana[tm.asanaTaskGid]
        counts == detectRun.commentCounts
    IN  IF source = "plane"
        THEN CASE field = "name" -> snapshot.planeName # issue.name
               [] field = "description" ->
                     snapshot.planeDescription # stripHtml(issue.description_html)
               [] field = "state" -> snapshot.planeState # issue.state_name
               [] field = "completed" -> FALSE
               [] field = "comments" ->
                     /\ tm.planeIssueId \in DOMAIN counts.plane
                     /\ snapshot.planeCommentsCount # counts.plane[tm.planeIssueId]
        ELSE CASE field = "name" -> snapshot.asanaName # task.name
               [] field = "description" ->
                     snapshot.asanaDescription # (IF task.notes = NoText THEN << >> ELSE task.notes)
               [] field = "state" -> FALSE
               [] field = "completed" -> snapshot.asanaCompleted # task.completed
               [] field = "comments" ->
                     /\ tm.asanaTaskGid \in DOMAIN counts.asana
                     /\ snapshot.asanaCommentsCount # counts.asana[tm.asanaTaskGid]

CountOf(changes, id, field) ==
    Cardinality({ i \in DOMAIN changes :
                    changes[i].taskMappingId = id /\ changes[i].field = field })

ChangesFrom(source) ==
    IF source = "plane" THEN response.planeChanges ELSE response.asanaChanges

(***************************************************************************)
(* C8: for a linked pair with a snapshot and both records present, a       *)
(* detection reports exactly one record for each tracked field of each     *)
(* side that differs from the snapshot (name, description, state on Plane; *)
(* name, description, completed on Asana; comments on a side whose count   *)
(* was fetched), none for a field that is equal, and no "new" entry.       *)
(***************************************************************************)
C8_OneRecordPerDifference ==
    Detected =>
        \A tm \in ComparedPairs :
            LET snapshot == SnapshotOf(detectRun.snapshots, tm.id)
            IN  snapshot # NoSnapshot =>
                    /\ \A source \in { "plane", "asana" }, field \in TrackedFields :
                           CountOf(ChangesFrom(source), tm.id, field) =
                               IF Differs(tm, snapshot, source, field) THEN 1 ELSE 0
                    /\ \A source \in { "plane", "asana" } :
                           /\ CountOf(ChangesFrom(source), tm.id, "new") = 0
                           /\ \A i \in DOMAIN ChangesFrom(source) :
                                  ChangesFrom(source)[i].source = source

\* the snapshot of a pair has state Open, the live issue has state Done and
\* nothing else differs: the report holds one record for the pair, for "state"
C8_Witness ==
    /\ Detected
    /\ \E tm \in ComparedPairs :
          LET snapshot == SnapshotOf(detectRun.snapshots, tm.id)
              records == RecordsOf(response.planeChanges, tm.id)
          IN  /\ snapshot # NoSnapshot
              /\ snapshot.planeState = "Open"
              /\ remotePlane[tm.planeIssueId].state_name = "Done"
              /\ Len(records) = 1
              /\ records[1].field = "state"
              /\ records[1].oldValue = << "Open" >>
              /\ records[1].newValue = << "Done" >>
              /\ RecordsOf(response.asanaChanges, tm.id) = << >>

(***************************************************************************)
(* C9: a linked pair without a snapshot whose two records are present      *)
(* gets exactly one entry in the report of a detection, with field "new",  *)
(* and no field difference.                                                *)
(***************************************************************************)
C9_NewEntryOnly ==
    Detected =>
        \A tm \in ComparedPairs :
            SnapshotOf(detectRun.snapshots, tm.id) = NoSnapshot =>
                LET entries == RecordsOf(response.planeChanges \o response.asanaChanges, tm.id)
                IN  /\ Len(entries) = 1
                    /\ entries[1].field = "new"

\* a detection ran before any snapshot was taken, with both pairs present
C9_Witness ==
    /\ Detected
    /\ detectRun.snapshots = {}
    /\ Cardinality(ComparedPairs) = 2
    /\ Len(response.planeChanges) = 2
    /\ response.summary.logged = 0

(***************************************************************************)
(* C10: when a detection has returned, every pair for which it reported a  *)
(* record other than "new" has a snapshot holding the live values of that  *)
(* run: names, descriptions, state, completed flag, modification times.    *)
(***************************************************************************)
C10_SnapshotOverwritten ==
    Detected =>
        \A tm \in LinkedRows(request.mappingId) :
            (FieldRecords(RecordsOf(response.planeChanges \o response.asanaChanges, tm.id))
                # << >>)
            => LET sn == SnapshotOf(taskSnapshots, tm.id)
                   issue == remotePlane[tm.planeIssueId]
                   task == remoteAsana[tm.asanaTaskGid]
               IN  /\ sn # NoSnapshot
                   /\ sn.planeName = issue.name
                   /\ sn.planeDescription = stripHtml(issue.description_html)
                   /\ sn.planeState = issue.state_name
                   /\ sn.planeModifiedAt = issue.updated_at
                   /\ sn.asanaName = task.name
                   /\ sn.asanaDescription = (IF task.notes = NoText THEN << >> ELSE task.notes)
                   /\ sn.asanaCompleted = task.completed
                   /\ sn.asanaModifiedAt = task.modified_at

\* a detection reported field differences for both pairs and replaced both
\* snapshots
C10_Witness ==
    /\ Detected
    /\ \A tm \in LinkedRows(request.mappingId) :
          /\ FieldRecords(RecordsOf(response.planeChanges \o response.asanaChanges, tm.id))
                # << >>
          /\ SnapshotOf(detectRun.snapshots, tm.id) # NoSnapshot
          /\ SnapshotOf(taskSnapshots, tm.id) # SnapshotOf(detectRun.snapshots, tm.id)
    /\ Cardinality(LinkedRows(request.mappingId)) = 2

(***************************************************************************)
(* fetchCommentCountsBatched, promise by promise.  A request is            *)
(* [system, id]; the remote system settles it at a time of its choosing,   *)
(* with the comments it holds or with a rejection.                         *)
(***************************************************************************)
MaxFetchTasks == 4

BATCH_SIZE == 3

\* the k-th task mapping handed to the function
FetchTask(k) == [planeIssueId |-> << "p", k >>, asanaTaskGid |-> << "a", k >>]

\* the same list with the Plane side of the second entry null
FetchTasks(n, withNull) ==
    [k \in 1..n |-> IF withNull /\ k = 2
                    THEN [FetchTask(k) EXCEPT !.planeIssueId = NoId]
                    ELSE FetchTask(k)]

\* the onlyModified arguments that the calls are made with
FilterChoices ==
    { NoFilter }
        \cup [planeIds : { {}, { << "p", 1 >> }, { << "p", 2 >>, << "p", 4 >> } },
              asanaIds : { {}, { << "a", 4 >> }, { << "a", k >> : k \in 1..MaxFetchTasks } }]

\* the number of comments the remote system holds for a record
RemoteCount(req) == IF req.system = "plane" THEN req.id[2] ELSE req.id[2] + 1

\* tasks.filter(...) when onlyModified is given
FilterTasks(tasks, filter) ==
    IF filter = NoFilter THEN tasks
    ELSE SelectSeq(tasks, LAMBDA t :
            \/ t.planeIssueId # NoId /\ t.planeIssueId \in filter.planeIds
            \/ t.asanaTaskGid # NoId /\ t.asanaTaskGid \in filter.asanaIds)

\* tasksToFetch.slice(i, i + BATCH_SIZE)
WholeRest(list, i) == SubSeq(list, i + 1, Len(list))
Batch(list, i) ==
    SubSeq(list, i + 1, IF i + BATCH_SIZE < Len(list) THEN i + BATCH_SIZE ELSE Len(list))

\* batch.flatMap(...): the requests that one task contributes
RequestsOfTask(t, filter) ==
    (IF t.planeIssueId # NoId /\ (filter = NoFilter \/ t.planeIssueId \in filter.planeIds)
     THEN { [system |-> "plane", id |-> t.planeIssueId] } ELSE {})
    \cup
    (IF t.asanaTaskGid # NoId /\ (filter = NoFilter \/ t.asanaTaskGid \in filter.asanaIds)
     THEN { [system |-> "asana", id |-> t.asanaTaskGid] } ELSE {})

RequestsOf(batch, filter) ==
    UNION { RequestsOfTask(batch[k], filter) : k \in DOMAIN batch }

\* .then(set length).catch(set 0): what the handlers of one request do once it
\* settles, and whether the promise handed to Promise.all rejects
ThenOnly(ok, n) == [set |-> ok, count |-> n, rejects |-> ~ok]
ThenCatch(ok, n) == [set |-> TRUE, count |-> IF ok THEN n ELSE 0, rejects |-> FALSE]

\* await Promise.all(promises): resumes when none of them is pending
NotAwaited(flying) == TRUE
AllSettled(flying) == flying = {}

\* Map.prototype.set
MapSet(map, key, value) ==
    [k \in DOMAIN map \cup {key} |-> IF k = key THEN value ELSE map[k]]

FetchInit ==
    /\ \E n \in 0..MaxFetchTasks, withNull \in BOOLEAN, filter \in FilterChoices :
          /\ onlyModified = filter
          /\ tasksToFetch = FilterTasks(FetchTasks(n, withNull), filter)
    /\ batchStart = 0
    /\ fetchPc = "loop"
    /\ inFlight = {}
    /\ planeComments = << >>
    /\ asanaComments = << >>
    /\ issued = {}
    /\ rejected = {}
    /\ delaysElapsed = {}
    /\ MatchIdle
    /\ ScoreIdle
    /\ LinkIdle
    /\ DetectIdle
    /\ SyncIdle
    /\ RequestIdle
    /\ BandIdle

\* the body of the for loop up to the await: every request of the batch is issued
IssueBatch ==
    /\ fetchPc = "loop"
    /\ batchStart < Len(tasksToFetch)
    /\ LET requests == RequestsOf(Batch(tasksToFetch, batchStart), onlyModified)
       IN  /\ inFlight' = inFlight \cup requests
           /\ issued' = issued \cup
                  { [system |-> r.system, id |-> r.id, batch |-> batchStart] : r \in requests }
    /\ fetchPc' = "await"
    /\ UNCHANGED << tasksToFetch, onlyModified, batchStart, planeComments, asanaComments,
                    rejected, delaysElapsed >>
    /\ UNCHANGED << matchVars, scoreVars, linkVars, detectVars, bandVars, requestVars, syncVars >>

\* one request settles and its handlers run
Settle ==
    /\ \E req \in inFlight, ok \in BOOLEAN :
          LET handled == ThenCatch(ok, RemoteCount(req))
          IN  /\ inFlight' = inFlight \ {req}
              /\ rejected' = IF ok THEN rejected ELSE rejected \cup {req}
              /\ planeComments' =
                     IF handled.set /\ req.system = "plane"
                     THEN MapSet(planeComments, req.id, handled.count) ELSE planeComments
              /\ asanaComments' =
                     IF handled.set /\ req.system = "asana"
                     THEN MapSet(asanaComments, req.id, handled.count) ELSE asanaComments
              /\ fetchPc' = IF handled.rejects /\ fetchPc = "await" THEN "rejected" ELSE fetchPc
    /\ UNCHANGED << tasksToFetch, onlyModified, batchStart, issued, delaysElapsed >>
    /\ UNCHANGED << matchVars, scoreVars, linkVars, detectVars, bandVars, requestVars, syncVars >>

\* Promise.all resolves; the last batch goes on without a delay
AwaitAll ==
    /\ fetchPc = "await"
    /\ AllSettled(inFlight)
    /\ IF batchStart + BATCH_SIZE < Len(tasksToFetch)
       THEN fetchPc' = "delay" /\ batchStart' = batchStart
       ELSE fetchPc' = "loop" /\ batchStart' = batchStart + BATCH_SIZE
    /\ UNCHANGED << tasksToFetch, onlyModified, inFlight, planeComments, asanaComments,
                    issued, rejected, delaysElapsed >>
    /\ UNCHANGED << matchVars, scoreVars, linkVars, detectVars, bandVars, requestVars, syncVars >>

\* await delay(BATCH_DELAY) resolves
DelayElapsed ==
    /\ fetchPc = "delay"
    /\ delaysElapsed' = delaysElapsed \cup {batchStart}
    /\ batchStart' = batchStart + BATCH_SIZE
    /\ fetchPc' = "loop"
    /\ UNCHANGED << tasksToFetch, onlyModified, inFlight, planeComments, asanaComments,
                    issued, rejected >>
    /\ UNCHANGED << matchVars, scoreVars, linkVars, detectVars, bandVars, requestVars, syncVars >>

\* return { plane: planeComments, asana: asanaComments }
FetchReturn ==
    /\ fetchPc = "loop"
    /\ batchStart >= Len(tasksToFetch)
    /\ fetchPc' = "returned"
    /\ UNCHANGED << tasksToFetch, onlyModified, batchStart, inFlight, planeComments,
                    asanaComments, issued, rejected, delaysElapsed >>
    /\ UNCHANGED << matchVars, scoreVars, linkVars, detectVars, bandVars, requestVars, syncVars >>

FetchNext == IssueBatch \/ Settle \/ AwaitAll \/ DelayElapsed \/ FetchReturn

SpecFetch == FetchInit /\ [][FetchNext]_vars

\* the entry of a request in the result maps
HasEntry(req) ==
    IF req.system = "plane" THEN req.id \in DOMAIN planeComments
    ELSE req.id \in DOMAIN asanaComments
Entry(req) == IF req.system = "plane" THEN planeComments[req.id] ELSE asanaComments[req.id]

Request(r) == [system |-> r.system, id |-> r.id]

\* the requests the call has to make: one per non-null id that passes the filter
ExpectedRequests ==
    { [system |-> "plane", id |-> tasksToFetch[k].planeIssueId] :
          k \in { j \in DOMAIN tasksToFetch :
                     /\ tasksToFetch[j].planeIssueId # NoId
                     /\ onlyModified # NoFilter =>
                            tasksToFetch[j].planeIssueId \in onlyModified.planeIds } }
    \cup
    { [system |-> "asana", id |-> tasksToFetch[k].asanaTaskGid] :
          k \in { j \in DOMAIN tasksToFetch :
                     /\ tasksToFetch[j].asanaTaskGid # NoId
                     /\ onlyModified # NoFilter =>
                            tasksToFetch[j].asanaTaskGid \in onlyModified.asanaIds } }

(***************************************************************************)
(* C11: a rejected comment fetch is recorded as count 0 for its id; the    *)
(* function never rejects; when it returns, every request it had to make   *)
(* was issued and has an entry, the remote count for a fulfilled one.      *)
(***************************************************************************)
C11_FailedFetchIsZero ==
    /\ fetchPc # "rejected"
    /\ \A req \in rejected : HasEntry(req) /\ Entry(req) = 0
    /\ fetchPc = "returned" =>
          /\ { Request(r) : r \in issued } = ExpectedRequests
          /\ \A req \in ExpectedRequests :
                /\ HasEntry(req)
                /\ req \notin rejected => Entry(req) = RemoteCount(req)

\* a fetch of the first batch was rejected, and a fetch of a later batch was
\* still issued and recorded
C11_Witness ==
    /\ fetchPc = "returned"
    /\ \E r1, r2 \in issued :
          /\ r1.batch < r2.batch
          /\ Request(r1) \in rejected
          /\ Request(r2) \notin rejected
          /\ Entry(Request(r2)) = RemoteCount(Request(r2))

(***************************************************************************)
(* C12: once a fetch of a later batch has been issued, every fetch of the  *)
(* batches before it has settled and the delay after each of those         *)
(* batches has elapsed.                                                    *)
(***************************************************************************)
C12_BatchesSequential ==
    \A r1, r2 \in issued :
        r1.batch < r2.batch =>
            /\ Request(r1) \notin inFlight
            /\ r1.batch \in delaysElapsed

C12_Witness ==
    \E r1, r2 \in issued : r1.batch < r2.batch /\ Request(r2) \in inFlight

(***************************************************************************)
(* C13: at most 3 comment-fetch requests are in flight at the same time.   *)
(***************************************************************************)
C13_AtMostThreeInFlight == Cardinality(inFlight) <= 3

InFlightOf(system) == { req \in inFlight : req.system = system }

\* C13, as the code has it: a batch is BATCH_SIZE task mappings, each with a
\* request to Plane and a request to Asana, so at most BATCH_SIZE requests per
\* remote system and twice that in all are in flight
C13_AtMostThreePerSystem ==
    /\ Cardinality(InFlightOf("plane")) <= BATCH_SIZE
    /\ Cardinality(InFlightOf("asana")) <= BATCH_SIZE
    /\ Cardinality(inFlight) <= 2 * BATCH_SIZE

C13_Witness ==
    /\ Cardinality(InFlightOf("plane")) = BATCH_SIZE
    /\ Cardinality(InFlightOf("asana")) = BATCH_SIZE

\* the step is a detection or a snapshot that returned its report
ReportsOn(op) == request'.op = op /\ response'.status = 200

\* the linked pairs of the mapping of the step with a record that is absent
\* from the listing the step reads
MissingPairs ==
    { tm \in LinkedRows(request'.mappingId) :
        ~remotePlane[tm.planeIssueId].present \/ ~remoteAsana[tm.asanaTaskGid].present }

(***************************************************************************)
(* C14: a detection or a snapshot counts every linked pair with a record   *)
(* absent from the listing in "missing", reports no change record for it   *)
(* (no field difference, no "new"), and leaves its TaskMapping and its     *)
(* stored snapshot as they were.                                           *)
(***************************************************************************)
C14_MissingPairsSkipped ==
    [][ /\ (ReportsOn("detect") /\ LinkedRows(request'.mappingId) # {})
            => response'.summary.missing = Cardinality(MissingPairs)
        /\ ReportsOn("snapshot") => response'.missingCount = Cardinality(MissingPairs)
        /\ (ReportsOn("detect") \/ ReportsOn("snapshot"))
            => /\ taskMappings' = taskMappings
               /\ \A tm \in MissingPairs :
                     SnapshotOf(taskSnapshots', tm.id) = SnapshotOf(taskSnapshots, tm.id)
        /\ ReportsOn("detect")
            => \A tm \in MissingPairs :
                  RecordsOf(response'.planeChanges \o response'.asanaChanges, tm.id) = << >>
      ]_vars

\* a detection ran on a mapping with a pair that has a snapshot and whose
\* Plane issue is gone: it counted the pair and reported nothing for it
C14_Witness ==
    /\ Detected
    /\ LinkedRows(request.mappingId) # {}
    /\ response.summary.missing = 1
    /\ \E tm \in LinkedRows(request.mappingId) :
          /\ ~remotePlane[tm.planeIssueId].present
          /\ SnapshotOf(taskSnapshots, tm.id) # NoSnapshot
          /\ RecordsOf(response.planeChanges \o response.asanaChanges, tm.id) = << >>

(***************************************************************************)
(* C15: a detection or a snapshot during which a bulk listing throws still *)
(* answers with a report, as if the listing were empty.                    *)
(***************************************************************************)
C15_ListingFailureTolerated ==
    (request.op \in { "detect", "snapshot" } /\ request.mappingId \in projectMappings)
        => response.status = 200

(***************************************************************************)
(* The scorer: one call of findMatches on a source name and a list of up   *)
(* to MaxTargets targets.                                                  *)
(***************************************************************************)
MaxTargets == 6

\* findMatches(sourceName, targetTasks, threshold = 0.6, ...)
DefaultThreshold == Frac(3, 5)

ScoreThresholds == { DefaultThreshold, Frac(9, 10) }

\* the gid of the target at each position of the list
GidAt == << "t1", "t2", "t3", "t4", "t5", "t6", "t7", "t8" >>

MatchableTasks(choices) ==
    [i \in DOMAIN choices |->
        [gid |-> GidAt[i], name |-> choices[i].name, description |-> choices[i].description]]

ScoreInit ==
    /\ \E source \in ScoreSources, choices \in SeqsUpTo(ScoreTargetChoices, MaxTargets) :
          /\ scoreSourceName = source.name
          /\ scoreSourceDescription = source.description
          /\ scoreTargets = MatchableTasks(choices)
    /\ scoreThreshold \in ScoreThresholds
    /\ returnedCandidates = << >>
    /\ returnedBestMatch = NoMatch
    /\ scorePc = "input"
    /\ MatchIdle
    /\ FetchIdle
    /\ LinkIdle
    /\ DetectIdle
    /\ SyncIdle
    /\ RequestIdle
    /\ BandIdle

\* One call of findMatches
FindMatches ==
    /\ scorePc = "input"
    /\ returnedCandidates' = findMatches(scoreSourceName, scoreTargets, scoreThreshold,
                                         scoreSourceDescription)
    /\ scorePc' = "done"
    /\ UNCHANGED << scoreSourceName, scoreSourceDescription, scoreTargets, scoreThreshold,
                    returnedBestMatch >>
    /\ UNCHANGED << matchVars, fetchVars, linkVars, detectVars, bandVars, requestVars, syncVars >>

ScoreNext == FindMatches

SpecScore == ScoreInit /\ [][ScoreNext]_vars

\* the returned candidates for one target
CandidatesFor(gid) == SelectSeq(returnedCandidates, LAMBDA c : c.gid = gid)

\* the positions of the targets whose normalized name is the source's
ExactTargets ==
    { i \in DOMAIN scoreTargets :
        Normalized[scoreTargets[i].name] = Normalized[scoreSourceName] }

IsExact(c) == c.confidence = Frac(1, 1) /\ c.matchMethod = "exact"

(***************************************************************************)
(* C16: for every target whose normalized name is identical to the         *)
(* normalized source name, findMatches returns exactly one candidate for   *)
(* that target, with confidence 1.0 and method "exact".                    *)
(***************************************************************************)
C16_ExactMatchReturned ==
    scorePc = "done" =>
        \A i \in ExactTargets :
            /\ Len(CandidatesFor(scoreTargets[i].gid)) = 1
            /\ IsExact(CandidatesFor(scoreTargets[i].gid)[1])

\* C16, as the code has it: the result is cut to 5 entries, so the claim holds
\* for the first 5 targets with an identical normalized name, in input order,
\* and a later one has no candidate
C16_ExactMatchAmongFirstFive ==
    scorePc = "done" =>
        \A i \in ExactTargets :
            IF Cardinality({ j \in ExactTargets : j < i }) < 5
            THEN /\ Len(CandidatesFor(scoreTargets[i].gid)) = 1
                 /\ IsExact(CandidatesFor(scoreTargets[i].gid)[1])
            ELSE CandidatesFor(scoreTargets[i].gid) = << >>

\* an exact target was returned from a list that also holds targets of
\* other names
C16_Witness ==
    /\ scorePc = "done"
    /\ scoreSourceName = FixLoginBugBang
    /\ \E i \in ExactTargets :
          /\ i > 1
          /\ scoreTargets[i].name = FixLoginBug
          /\ Len(CandidatesFor(scoreTargets[i].gid)) = 1
          /\ IsExact(CandidatesFor(scoreTargets[i].gid)[1])

\* every target that fired a rule with a confidence that clears the threshold,
\* in input order
Passing ==
    SelectSeq(CandidatesOf(Normalized[scoreSourceName], scoreSourceName,
                           scoreSourceDescription, scoreTargets),
              LAMBDA c : FracGE(c.confidence, scoreThreshold))

Returned(c) == \E i \in DOMAIN returnedCandidates : returnedCandidates[i] = c

(***************************************************************************)
(* C18: findMatches returns at most 5 candidates, in non-increasing order  *)
(* of confidence; they are candidates that fired a rule and clear the      *)
(* threshold, one per target, as many as there are up to 5, and no         *)
(* candidate left out has a higher confidence than one returned.           *)
(***************************************************************************)
C18_TopFiveByConfidence ==
    scorePc = "done" =>
        LET passing == Passing
            returned == returnedCandidates
        IN  /\ Len(returned) <= 5
            /\ \A i \in DOMAIN returned :
                  /\ i > 1 => FracGE(returned[i - 1].confidence, returned[i].confidence)
                  /\ \E j \in DOMAIN passing : passing[j] = returned[i]
                  /\ \A k \in DOMAIN returned : k # i => returned[k].gid # returned[i].gid
            /\ Len(returned) = IF Len(passing) < 5 THEN Len(passing) ELSE 5
            /\ \A j \in DOMAIN passing :
                  (\A i \in DOMAIN returned : returned[i] # passing[j]) =>
                      \A i \in DOMAIN returned :
                          FracGE(returned[i].confidence, passing[j].confidence)

\* six targets fired; the one left out scored lower than every one returned,
\* although it came first in the input
C18_Witness ==
    /\ scorePc = "done"
    /\ Len(Passing) = 6
    /\ ~Returned(Passing[1])
    /\ \A i \in DOMAIN returnedCandidates :
          FracGT(returnedCandidates[i].confidence, Passing[1].confidence)
    /\ FracGT(returnedCandidates[1].confidence, returnedCandidates[5].confidence)

\* the call of the example: 'Fix login bug' against
\* ['Fix login bug', 'Update login page', 'Bug: login crash'], default threshold
ExampleCall ==
    /\ scorePc = "done"
    /\ scoreSourceName = FixLoginBug
    /\ scoreSourceDescription = << >>
    /\ scoreThreshold = DefaultThreshold
    /\ Len(scoreTargets) = 3
    /\ scoreTargets[1].name = FixLoginBug
    /\ scoreTargets[2].name = UpdateLoginPage
    /\ scoreTargets[3].name = BugLoginCrash

(***************************************************************************)
(* C19: in the example, the third target 'Bug: login crash' is returned,   *)
(* scored by the name-keyword rule: method "fuzzy", confidence in          *)
(* [0.3, 0.9).                                                             *)
(***************************************************************************)
C19_ThirdTargetByKeywords ==
    ExampleCall =>
        /\ Len(CandidatesFor(scoreTargets[3].gid)) = 1
        /\ LET c == CandidatesFor(scoreTargets[3].gid)[1]
           IN  /\ c.matchMethod = "fuzzy"
               /\ c.matchReason[2] = "% keyword match in name"
               /\ FracGE(c.confidence, Frac(3, 10))
               /\ FracGT(Frac(9, 10), c.confidence)

\* the keyword sets are {login} and {login, crash}: overlap 50%, confidence 0.8
C19_Witness ==
    /\ ExampleCall
    /\ \E i \in DOMAIN returnedCandidates :
          /\ returnedCandidates[i].gid = scoreTargets[3].gid
          /\ returnedCandidates[i].matchReason = << 50, "% keyword match in name" >>
          /\ FracEQ(returnedCandidates[i].confidence, Frac(8, 10))

(***************************************************************************)
(* C20: in the example, the second target 'Update login page' is omitted   *)
(* from the result.                                                        *)
(***************************************************************************)
C20_SecondTargetOmitted ==
    ExampleCall => CandidatesFor(scoreTargets[2].gid) = << >>

\* the confidence is at most 1.0 and at least the threshold of the call
WithinRange(confidence, minimum) ==
    FracGE(Frac(1, 1), confidence) /\ FracGE(confidence, minimum)

(***************************************************************************)
(* C17: every candidate that findMatches or getBestMatch returns, and      *)
(* every suggestion that autoMatchAllTasks returns, has a confidence of at *)
(* most 1.0 and of at least the threshold the caller passed.               *)
(***************************************************************************)
C17_ConfidenceWithinRange ==
    matchPc = "done" =>
        /\ \A i \in DOMAIN returnedCandidates :
              WithinRange(returnedCandidates[i].confidence, minConfidence)
        /\ returnedBestMatch # NoMatch =>
              WithinRange(returnedBestMatch.confidence, minConfidence)
        /\ \A i \in DOMAIN suggestions :
              WithinRange(suggestions[i].confidence, minConfidence)

\* getBestMatch fell back to the fuzzy search and returned its hit, whose
\* confidence is exactly the threshold
C17_Witness ==
    /\ matchPc = "done"
    /\ returnedBestMatch # NoMatch
    /\ returnedBestMatch.matchReason = << "Fuzzy text match" >>
    /\ FracEQ(returnedBestMatch.confidence, minConfidence)

\* changeLog is the beginning of changeLog'
Extends(log, log2) == Len(log) <= Len(log2) /\ SubSeq(log2, 1, Len(log)) = log

(***************************************************************************)
(* C21: ChangeLog entries are append-only: no operation modifies or        *)
(* removes a change record once it is written; every step leaves the rows  *)
(* of the table in place and at most adds rows after them.                 *)
(***************************************************************************)
C21_AppendOnly == [][Extends(changeLog, changeLog')]_vars

\* C21, as the code has it: no operation changes a field of a record, and a
\* detection only adds records after the ones that exist; records are removed
\* only together with every record of their mapping, by DELETE
\* .../changes/history or by the cascade of deleting the project mapping, and
\* the records of other mappings stay
C21_RemovedOnlyWithMapping ==
    [][ IF request'.op \in { "clearHistory", "deleteProject" }
        THEN changeLog' = SelectSeq(changeLog,
                              LAMBDA row : row.projectMappingId # request'.mappingId)
        ELSE Extends(changeLog, changeLog') ]_vars

\* a detection added records after the records of an earlier detection
C21_Witness ==
    /\ Detected
    /\ response.summary.totalLinked > 0
    /\ response.summary.logged > 0
    /\ Len(changeLog) > response.summary.logged

(***************************************************************************)
(* C22: the list that autoMatchAllTasks returns is in non-increasing order *)
(* of confidence, whatever the order in which the Plane tasks were         *)
(* processed.                                                              *)
(***************************************************************************)
C22_SortedByConfidence ==
    matchPc = "done" =>
        \A i, j \in DOMAIN suggestions :
            i < j => FracGE(suggestions[i].confidence, suggestions[j].confidence)

\* the Plane task processed second got the higher confidence and is returned
\* first
C22_Witness ==
    /\ matchPc = "done"
    /\ Len(planeTasks) = 2
    /\ planeTasks[1].id # planeTasks[2].id
    /\ Len(suggestions) = 2
    /\ suggestions[1].planeTaskId = planeTasks[2].id
    /\ suggestions[2].planeTaskId = planeTasks[1].id
    /\ FracGT(suggestions[1].confidence, suggestions[2].confidence)

\* the snapshot holds the values the step read from the two records of the
\* pair, and the comment counts the step recorded
HoldsLiveValues(sn, tm) ==
    LET issue == remotePlane'[tm.planeIssueId]
        task == remoteAsana'[tm.asanaTaskGid]
        counts == detectRun'.commentCounts
    IN  /\ sn.planeName = issue.name
        /\ sn.planeDescription = stripHtml(issue.description_html)
        /\ sn.planeState = issue.state_name
        /\ sn.planeModifiedAt = issue.updated_at
        /\ sn.planeCommentsCount = counts.plane[tm.planeIssueId]
        /\ sn.asanaName = task.name
        /\ sn.asanaDescription = (IF task.notes = NoText THEN << >> ELSE task.notes)
        /\ sn.asanaCompleted = task.completed
        /\ sn.asanaModifiedAt = task.modified_at
        /\ sn.asanaCommentsCount = counts.asana[tm.asanaTaskGid]

(***************************************************************************)
(* C23: a fully-linked pair gets its first snapshot only from takeSnapshot *)
(* (a detection never creates a snapshot for a pair that has none), and    *)
(* when takeSnapshot has returned, every fully-linked pair of the mapping  *)
(* whose two records are in the listings has a snapshot holding the live   *)
(* values of that run.                                                     *)
(***************************************************************************)
C23_FirstSnapshotByTakeSnapshot ==
    [][ /\ \A tm \in taskMappings :
              (/\ FullyLinked(tm)
               /\ SnapshotOf(taskSnapshots, tm.id) = NoSnapshot
               /\ SnapshotOf(taskSnapshots', tm.id) # NoSnapshot)
              => ReportsOn("snapshot")
        /\ ReportsOn("snapshot")
              => \A tm \in LinkedRows(request'.mappingId) \ MissingPairs :
                    /\ SnapshotOf(taskSnapshots', tm.id) # NoSnapshot
                    /\ HoldsLiveValues(SnapshotOf(taskSnapshots', tm.id), tm)
      ]_vars

\* a snapshot was taken after a remote edit when no pair had a snapshot: both
\* pairs have one now, and the fetched comment counts are in them
C23_Witness ==
    /\ request.op = "snapshot"
    /\ response.status = 200
    /\ response.snapshotCount = 2
    /\ detectRun.snapshots = {}
    /\ Cardinality(taskSnapshots) = 2
    /\ clock = 1
    /\ \E sn \in taskSnapshots : sn.planeCommentsCount = 2

\* the detection just answered issued a comment fetch to the system for the id
FetchIssued(system, id) ==
    IF system = "plane" THEN id \in DOMAIN detectRun.commentCounts.plane
    ELSE id \in DOMAIN detectRun.commentCounts.asana

(***************************************************************************)
(* C24: a detection issues a Plane comment fetch for a linked pair exactly *)
(* when the pair has a snapshot, its two records are in the listings, and  *)
(* the issue's updated_at is strictly newer than the snapshot's            *)
(* planeModifiedAt or one of the two timestamps is absent.                 *)
(***************************************************************************)
C24_PlaneFetchWhenModified ==
    Detected =>
        \A tm \in LinkedRows(request.mappingId) :
            LET snapshot == SnapshotOf(detectRun.snapshots, tm.id)
                issue == remotePlane[tm.planeIssueId]
            IN  FetchIssued("plane", tm.planeIssueId)
                <=> /\ snapshot # NoSnapshot
                    /\ tm \in ComparedPairs
                    /\ \/ issue.updated_at = NoTime
                       \/ snapshot.planeModifiedAt = NoTime
                       \/ issue.updated_at > snapshot.planeModifiedAt

\* one issue was edited after the snapshot and was fetched, the other has no
\* timestamp and was fetched too
C24_Witness ==
    /\ Detected
    /\ \E tm1, tm2 \in ComparedPairs :
          LET sn1 == SnapshotOf(detectRun.snapshots, tm1.id)
              sn2 == SnapshotOf(detectRun.snapshots, tm2.id)
          IN  /\ sn1 # NoSnapshot /\ sn2 # NoSnapshot
              /\ sn1.planeModifiedAt # NoTime
              /\ remotePlane[tm1.planeIssueId].updated_at > sn1.planeModifiedAt
              /\ FetchIssued("plane", tm1.planeIssueId)
              /\ remotePlane[tm2.planeIssueId].updated_at = NoTime
              /\ FetchIssued("plane", tm2.planeIssueId)

(***************************************************************************)
(* C25: a detection issues an Asana comment fetch for every linked pair    *)
(* that has a snapshot, whether or not its modified_at changed, and for no *)
(* pair without a snapshot.                                                *)
(***************************************************************************)
C25_AsanaFetchForEverySnapshot ==
    Detected =>
        \A tm \in LinkedRows(request.mappingId) :
            FetchIssued("asana", tm.asanaTaskGid)
                <=> SnapshotOf(detectRun.snapshots, tm.id) # NoSnapshot

\* C25, as the code has it: the first pass skips a pair with a record absent
\* from the listings, so the fetch is issued for the pairs that have a
\* snapshot and both records present, and for no other pair
C25_AsanaFetchForComparedSnapshots ==
    Detected =>
        \A tm \in LinkedRows(request.mappingId) :
            FetchIssued("asana", tm.asanaTaskGid)
                <=> /\ SnapshotOf(detectRun.snapshots, tm.id) # NoSnapshot
                    /\ tm \in ComparedPairs

\* a comment was added to an Asana task after the snapshot: modified_at is as
\* in the snapshot, the count was fetched all the same and differs
C25_Witness ==
    /\ Detected
    /\ \E tm \in ComparedPairs :
          LET sn == SnapshotOf(detectRun.snapshots, tm.id)
          IN  /\ sn # NoSnapshot
              /\ remoteAsana[tm.asanaTaskGid].modified_at = sn.asanaModifiedAt
              /\ FetchIssued("asana", tm.asanaTaskGid)
              /\ detectRun.commentCounts.asana[tm.asanaTaskGid] = sn.asanaCommentsCount + 1
              /\ remoteAsana[tm.asanaTaskGid].comments = 2

\* the tracked fields other than the comment count
ComparedFields == TrackedFields \ { "comments" }

(***************************************************************************)
(* C26: when a detection fetched no comment count for a side of a pair it  *)
(* compares, it reports no "comments" record for that side, and the name,  *)
(* description and state/completed comparisons of the pair are made all    *)
(* the same: one record for each of those fields that differs, on either   *)
(* side, none for one that is equal.                                       *)
(***************************************************************************)
C26_OnlyCommentsSuppressed ==
    Detected =>
        \A tm \in ComparedPairs :
            LET snapshot == SnapshotOf(detectRun.snapshots, tm.id)
                id == [plane |-> tm.planeIssueId, asana |-> tm.asanaTaskGid]
            IN  snapshot # NoSnapshot =>
                    \A side \in { "plane", "asana" } :
                        ~FetchIssued(side, id[side]) =>
                            /\ CountOf(ChangesFrom(side), tm.id, "comments") = 0
                            /\ \A source \in { "plane", "asana" }, field \in ComparedFields :
                                   CountOf(ChangesFrom(source), tm.id, field) =
                                       IF Differs(tm, snapshot, source, field) THEN 1 ELSE 0

\* the name of a Plane issue was edited and its updated_at is the snapshot's:
\* no Plane count was fetched for the pair, the name record is reported
C26_Witness ==
    /\ Detected
    /\ \E tm \in ComparedPairs :
          LET snapshot == SnapshotOf(detectRun.snapshots, tm.id)
          IN  /\ snapshot # NoSnapshot
              /\ ~FetchIssued("plane", tm.planeIssueId)
              /\ snapshot.planeName # remotePlane[tm.planeIssueId].name
              /\ CountOf(response.planeChanges, tm.id, "name") = 1
              /\ CountOf(response.planeChanges, tm.id, "comments") = 0

\* autoMatchAllTasks has returned, on a list of Plane tasks with distinct ids
MatchedAll ==
    /\ matchPc = "done"
    /\ scorePc = "idle"
    /\ \A i, j \in DOMAIN planeTasks : i # j => planeTasks[i].id # planeTasks[j].id

\* the suggestion returned for a Plane task: a sequence of length 0 or 1
SuggestionFor(id) == SelectSeq(suggestions, LAMBDA s : s.planeTaskId = id)

\* the targets that the tasks before position i were given, and the ones
\* already linked
ClaimedBefore(i) ==
    alreadyLinkedAsanaGids
        \cup { s.asanaTaskGid : s \in
                 UNION { Range(SuggestionFor(planeTasks[j].id)) : j \in 1..(i - 1) } }

\* what the rule-based scorer returns for the task at position i on the
\* targets not in claimed
RuleMatches(i, claimed) ==
    findMatches(planeTasks[i].name,
                SelectSeq(AsMatchable(asanaTasks), LAMBDA t : t.gid \notin claimed),
                minConfidence, planeTasks[i].description)

(***************************************************************************)
(* C27: autoMatchAllTasks takes the Plane tasks in input order: the target *)
(* given to a task is its best candidate among the targets that no task    *)
(* earlier in the input was given, and a target given to an earlier task   *)
(* stays with it, whatever a later task scores against it.                 *)
(***************************************************************************)
C27_GreedyInInputOrder ==
    MatchedAll =>
        \A i \in DOMAIN planeTasks :
            LET Given(given, claimed, best) ==
                    IF given = << >>
                    THEN planeTasks[i].id \in alreadyLinkedPlaneIds \/ best = << >>
                    ELSE /\ planeTasks[i].id \notin alreadyLinkedPlaneIds
                         /\ given[1].asanaTaskGid \notin claimed
                         /\ \E t \in Range(asanaTasks) : t.gid = given[1].asanaTaskGid
                         /\ IF best # << >>
                            THEN /\ given[1].asanaTaskGid = best[1].gid
                                 /\ given[1].confidence = best[1].confidence
                                 /\ given[1].matchMethod = best[1].matchMethod
                            ELSE given[1].matchReason = << "Fuzzy text match" >>
                WithClaimed(claimed) ==
                    Given(SuggestionFor(planeTasks[i].id), claimed, RuleMatches(i, claimed))
            IN  WithClaimed(ClaimedBefore(i))

\* the first task was given a target against which the second task scores
\* higher; the second task, for which it is the only candidate, got nothing
C27_Witness ==
    /\ MatchedAll
    /\ Len(planeTasks) = 2
    /\ Len(suggestions) = 1
    /\ suggestions[1].planeTaskId = planeTasks[1].id
    /\ LET wanted == RuleMatches(2, alreadyLinkedAsanaGids)
       IN  /\ wanted # << >>
           /\ wanted[1].gid = suggestions[1].asanaTaskGid
           /\ FracGT(wanted[1].confidence, suggestions[1].confidence)

(***************************************************************************)
(* C28: no suggestion that autoMatchAllTasks returns names a Plane id of   *)
(* alreadyLinkedPlaneIds or an Asana gid of alreadyLinkedAsanaGids.        *)
(***************************************************************************)
C28_LinkedTasksNotSuggested ==
    matchPc = "done" =>
        \A i \in DOMAIN suggestions :
            /\ suggestions[i].planeTaskId \notin alreadyLinkedPlaneIds
            /\ suggestions[i].asanaTaskGid \notin alreadyLinkedAsanaGids

\* a linked Plane task and a linked Asana task were in the input; the Asana
\* task has the very name of the Plane task that got a suggestion, which
\* names another target
C28_Witness ==
    /\ matchPc = "done"
    /\ \E i \in DOMAIN planeTasks : planeTasks[i].id \in alreadyLinkedPlaneIds
    /\ \E i \in DOMAIN asanaTasks, j \in DOMAIN planeTasks, k \in DOMAIN suggestions :
          /\ asanaTasks[i].gid \in alreadyLinkedAsanaGids
          /\ suggestions[k].planeTaskId = planeTasks[j].id
          /\ Normalized[planeTasks[j].name] = Normalized[asanaTasks[i].name]
          /\ suggestions[k].asanaTaskGid # asanaTasks[i].gid

\* what the rule-based scorer returns on the arguments of the call
RuleBased == findMatches(scoreSourceName, scoreTargets, scoreThreshold, scoreSourceDescription)

(***************************************************************************)
(* C29: when findMatches yields a candidate for the arguments of the call, *)
(* getBestMatch returns the first of them, whatever the fuzzy search would *)
(* return; a hit of the fuzzy search is returned only when findMatches     *)
(* yields none, and then only when it clears the threshold; what is        *)
(* returned is a function of the arguments and of the library's answer.    *)
(***************************************************************************)
C29_RuleBasedFirst ==
    scorePc = "best" =>
        LET Returned29(matches) ==
                IF matches # << >>
                THEN returnedBestMatch = matches[1]
                ELSE \/ returnedBestMatch = NoMatch
                     \/ /\ returnedBestMatch.matchReason = << "Fuzzy text match" >>
                        /\ FracGE(returnedBestMatch.confidence, scoreThreshold)
                        /\ \E i \in DOMAIN scoreTargets :
                              /\ scoreTargets[i].gid = returnedBestMatch.gid
                              /\ scoreTargets[i].name = returnedBestMatch.name
        IN  Returned29(RuleBased)

\* two targets fired a rule; the one returned is the second of the input, with
\* the higher confidence
C29_Witness ==
    /\ scorePc = "best"
    /\ Len(scoreTargets) = 2
    /\ Len(RuleBased) = 2
    /\ returnedBestMatch.gid = scoreTargets[2].gid
    /\ returnedBestMatch = RuleBased[1]
    /\ FracGT(RuleBased[1].confidence, RuleBased[2].confidence)

\* the conditions of the five rules for the source of the call and a target
RuleHolds(rule, target) ==
    LET source == Normalized[scoreSourceName]
        name == Normalized[target.name]
        bothDescribed == scoreSourceDescription # << >> /\ target.description # << >>
    IN  CASE rule = 1 -> source = name
          [] rule = 2 ->
                /\ includes(source, name) \/ includes(name, source)
                /\ IF Len(source) < Len(name) THEN 2 * Len(source) > Len(name)
                   ELSE 2 * Len(name) > Len(source)
          [] rule = 3 ->
                FracGE(keywordOverlapScore(scoreSourceName, target.name), Frac(4, 10))
          [] rule = 4 ->
                /\ bothDescribed
                /\ FracGE(keywordOverlapScore(scoreSourceDescription, target.description),
                          Frac(3, 10))
          [] rule = 5 ->
                /\ bothDescribed
                /\ \/ FracGE(keywordOverlapScore(scoreSourceName, target.description),
                             Frac(3, 10))
                   \/ FracGE(keywordOverlapScore(target.name, scoreSourceDescription),
                             Frac(3, 10))

\* the first rule whose condition holds for the target, 0 when none does
FirstRule(target) ==
    IF \E rule \in 1..5 : RuleHolds(rule, target)
    THEN CHOOSE rule \in 1..5 :
            /\ RuleHolds(rule, target)
            /\ \A earlier \in 1..(rule - 1) : ~RuleHolds(earlier, target)
    ELSE 0

\* the rule that a candidate says it was produced by
RuleOf(c) ==
    CASE c.matchReason = << "Exact name match" >> -> 1
      [] c.matchReason = << "Name contains match" >> -> 2
      [] Len(c.matchReason) = 2 /\ c.matchReason[2] = "% keyword match in name" -> 3
      [] Len(c.matchReason) = 2 /\ c.matchReason[2] = "% description similarity" -> 4
      [] c.matchReason = << "Name found in description" >> -> 5
      [] OTHER -> 0

(***************************************************************************)
(* C30: findMatches returns at most one candidate for a target, and it is  *)
(* the one of the first rule, in the order exact, containment, keyword     *)
(* overlap of the names, description similarity, cross name/description,   *)
(* whose condition holds for the target.                                   *)
(***************************************************************************)
C30_FirstRuleWins ==
    scorePc = "done" =>
        \A i \in DOMAIN scoreTargets :
            LET OneOf(returned) ==
                    /\ Len(returned) <= 1
                    /\ returned # << >> =>
                          /\ RuleOf(returned[1]) # 0
                          /\ RuleOf(returned[1]) = FirstRule(scoreTargets[i])
            IN  OneOf(CandidatesFor(scoreTargets[i].gid))

\* a call with a target for which the conditions of both the keyword rule
\* and the description rule hold and which got the keyword candidate only,
\* next to a target whose candidate comes from the containment rule
C30_Witness ==
    /\ scorePc = "done"
    /\ \E i \in DOMAIN returnedCandidates : RuleOf(returnedCandidates[i]) = 2
    /\ \E i \in DOMAIN scoreTargets :
          /\ RuleHolds(3, scoreTargets[i])
          /\ RuleHolds(4, scoreTargets[i])
          /\ Len(CandidatesFor(scoreTargets[i].gid)) = 1
          /\ RuleOf(CandidatesFor(scoreTargets[i].gid)[1]) = 3

(***************************************************************************)
(* One scoring stage of findMatches on two targets: the similarity ratios  *)
(* are drawn from the fractions of a bounded denominator for which the     *)
(* stage fires, and the stage computes the confidence of each candidate.   *)
(***************************************************************************)
MaxDenominator == 7

BandRules == { "containment", "nameKeyword", "descKeyword", "cross" }

\* shorter / longer of two lengths, or the Jaccard ratio of two keyword sets
\* (two names of the same length of which one contains the other are equal)
BandRatios(rule) ==
    { r \in [n : 0..MaxDenominator, d : 1..MaxDenominator] :
        /\ r.n <= r.d
        /\ rule = "containment" => r.n >= 1 /\ r.n < r.d }

StageFires(rule, score) ==
    CASE rule = "containment" -> containmentFires(score)
      [] rule = "nameKeyword" -> nameKeywordFires(score)
      [] rule = "descKeyword" -> descKeywordFires(score)
      [] rule = "cross" -> crossFires(score)

StageConfidence(rule, score) ==
    CASE rule = "containment" -> containmentConfidence(score)
      [] rule = "nameKeyword" -> nameKeywordConfidence(score)
      [] rule = "descKeyword" -> descKeywordConfidence(score)
      [] rule = "cross" -> crossConfidence(score)

BandInit ==
    /\ bandRule \in BandRules
    /\ bandScores \in
          { pair \in BandRatios(bandRule) \X BandRatios(bandRule) :
              StageFires(bandRule, pair[1]) /\ StageFires(bandRule, pair[2]) }
    /\ bandConfidences = << >>
    /\ bandPc = "input"
    /\ MatchIdle
    /\ ScoreIdle
    /\ FetchIdle
    /\ LinkIdle
    /\ DetectIdle
    /\ SyncIdle
    /\ RequestIdle

\* the stage pushes the candidate of each of the two targets
PushCandidates ==
    /\ bandPc = "input"
    /\ bandConfidences' = << StageConfidence(bandRule, bandScores[1]),
                             StageConfidence(bandRule, bandScores[2]) >>
    /\ bandPc' = "done"
    /\ UNCHANGED << bandRule, bandScores >>
    /\ UNCHANGED << matchVars, scoreVars, fetchVars, linkVars, detectVars, requestVars, syncVars >>

BandNext == PushCandidates

SpecBand == BandInit /\ [][BandNext]_vars

(***************************************************************************)
(* C31: within one scoring rule of findMatches a larger similarity ratio   *)
(* never gives a smaller confidence.                                       *)
(***************************************************************************)
C31_ConfidenceMonotonic ==
    bandPc = "done" =>
        (FracGE(bandScores[1], bandScores[2])
            => FracGE(bandConfidences[1], bandConfidences[2]))

\* the keyword rule on two targets of different overlap, below the cap of
\* 0.9: the target with the larger overlap got the strictly larger confidence
C31_Witness ==
    /\ bandPc = "done"
    /\ bandRule = "nameKeyword"
    /\ FracGT(bandScores[1], bandScores[2])
    /\ FracGT(bandConfidences[1], bandConfidences[2])
    /\ FracGT(Frac(9, 10), bandConfidences[1])

(***************************************************************************)
(* GET /api/mappings/[mappingId]/changes, await by await.  Nothing orders  *)
(* two requests: each one keeps what it read in its own locals, and the    *)
(* steps of the requests interleave at the awaits.  The remote systems are *)
(* edited and the snapshots taken before the first request begins.         *)
(***************************************************************************)
NoneStarted == \A r \in RequestIds : running[r].pc = "idle"

BeforeRequests ==
    /\ NoneStarted
    /\ \/ TakeSnapshot
       \/ EditPlaneIssue
       \/ CommentOnPlaneIssue
       \/ EditAsanaTask
       \/ CommentOnAsanaTask

RequestStep(r, req) ==
    /\ running' = [running EXCEPT ![r] = req]
    /\ UNCHANGED << projectMappings, remotePlane, remoteAsana, clock, detectRun >>
    /\ UNCHANGED << taskMappings, nextId, request, response, applyLog >>
    /\ UNCHANGED << matchVars, scoreVars, fetchVars, bandVars, syncVars >>

\* projectMapping.findUnique, taskMapping.findMany({ include: { snapshot } })
BeginRequest(r) ==
    /\ running[r].pc = "idle"
    /\ r > 1 => running[r - 1].pc # "idle"
    /\ \E mappingId \in { "m1" } :
          RequestStep(r, [running[r] EXCEPT !.pc = "loaded",
                                            !.mappingId = mappingId,
                                            !.rows = LinkedRows(mappingId),
                                            !.snapshots = taskSnapshots])
    /\ UNCHANGED << taskSnapshots, changeLog, failures >>

\* await Promise.all([listIssues, listTasks])
ListRecords(r) ==
    /\ running[r].pc = "loaded"
    /\ RequestStep(r, [running[r] EXCEPT !.pc = "listed",
                                         !.planeIssueMap = listIssues,
                                         !.asanaTaskMap = listTasks])
    /\ UNCHANGED << taskSnapshots, changeLog, failures >>

\* the first pass and await fetchCommentCountsBatched: every batch has settled
FetchCounts(r) ==
    /\ running[r].pc = "listed"
    /\ LET req == running[r]
           planeIds == modifiedPlaneIds(req.rows, req.planeIssueMap, req.asanaTaskMap,
                                        req.snapshots)
           asanaIds == asanaIdsToCheck(req.rows, req.planeIssueMap, req.asanaTaskMap,
                                       req.snapshots)
       IN  \E failed \in FailuresOf(planeIds \cup asanaIds) :
              /\ RequestStep(r, [req EXCEPT
                                    !.pc = "fetched",
                                    !.commentCounts =
                                        fetchCommentCountsBatched(planeIds, asanaIds, failed)])
              /\ failures' = failures + Cardinality(failed)
    /\ UNCHANGED << taskSnapshots, changeLog >>

\* new Set(allChanges.map(c => c.taskMappingId)): in order of first appearance
RECURSIVE changedTaskIds(_, _)
changedTaskIds(allChanges, seen) ==
    IF allChanges = << >> THEN << >>
    ELSE IF Head(allChanges).taskMappingId \in seen
    THEN changedTaskIds(Tail(allChanges), seen)
    ELSE << Head(allChanges).taskMappingId >>
         \o changedTaskIds(Tail(allChanges), seen \cup { Head(allChanges).taskMappingId })

\* the handler reaches the comparison when the comment counts are there
ReadyOnceListed(req) == req.pc \in { "listed", "fetched" }
ReadyToWrite(req) == req.pc = "fetched"

\* the second pass over the pairs, run without an await in between, and
\* await changeLog.createMany when there is something to log
CompareAndLog(r) ==
    /\ ReadyToWrite(running[r])
    /\ LET req == running[r]
           Compared(counts) ==
               CompareLoop(RowsInOrder(req.rows), req.planeIssueMap, req.asanaTaskMap,
                           req.snapshots, counts, clock,
                           [planeChanges |-> << >>, asanaChanges |-> << >>,
                            missingCount |-> 0])
           Logged(compared) ==
               SelectSeq(compared.planeChanges \o compared.asanaChanges, Loggable)
           Step(compared, allChanges) ==
               /\ RequestStep(r, [req EXCEPT
                     !.pc = "logged",
                     !.report = [status |-> 200,
                                 planeChanges |-> compared.planeChanges,
                                 asanaChanges |-> compared.asanaChanges,
                                 summary |-> [planeChanges |-> Len(compared.planeChanges),
                                              asanaChanges |-> Len(compared.asanaChanges),
                                              totalLinked |-> Cardinality(req.rows),
                                              missing |-> compared.missingCount,
                                              logged |-> Len(allChanges)]],
                     !.changed = changedTaskIds(allChanges, {})])
               /\ changeLog' =
                     IF allChanges = << >> THEN changeLog
                     ELSE createMany(changeLog,
                                     [i \in DOMAIN allChanges |->
                                         [projectMappingId |-> req.mappingId,
                                          change |-> allChanges[i]]])
           Write(compared) == Step(compared, Logged(compared))
       IN  Write(Compared(req.commentCounts))
    /\ UNCHANGED << taskSnapshots, failures >>

\* one turn of the loop over changedTaskIds: await taskSnapshot.upsert
UpsertSnapshot(r) ==
    /\ running[r].pc = "logged"
    /\ running[r].changed # << >>
    /\ LET req == running[r]
           tm == CHOOSE row \in req.rows : row.id = Head(req.changed)
           old == SnapshotOf(req.snapshots, tm.id)
       IN  /\ RequestStep(r, [req EXCEPT !.changed = Tail(@)])
           /\ taskSnapshots' =
                 IF BothPresent(tm, req.planeIssueMap, req.asanaTaskMap)
                 THEN Upsert(taskSnapshots,
                             UpsertDataOf(tm, old, req.planeIssueMap, req.asanaTaskMap,
                                          req.commentCounts))
                 ELSE taskSnapshots
    /\ UNCHANGED << changeLog, failures >>

\* return NextResponse.json({ planeChanges, asanaChanges, summary })
SendReport(r) ==
    /\ running[r].pc = "logged"
    /\ running[r].changed = << >>
    /\ RequestStep(r, [running[r] EXCEPT !.pc = "done", !.response = running[r].report])
    /\ UNCHANGED << taskSnapshots, changeLog, failures >>

\* an await of the handler throws (the database, a listing), or the process
\* stops: the catch answers 500 and nothing more is done for the request
FailRequest(r) ==
    /\ running[r].pc \in { "loaded", "listed", "fetched", "logged" }
    /\ RequestStep(r, [running[r] EXCEPT
                          !.pc = "failed",
                          !.response = [status |-> 500,
                                        error |-> "Failed to detect changes"]])
    /\ UNCHANGED << taskSnapshots, changeLog, failures >>

RequestsNext ==
    \/ BeforeRequests
    \/ \E r \in RequestIds : BeginRequest(r)
    \/ \E r \in RequestIds : ListRecords(r)
    \/ \E r \in RequestIds : FetchCounts(r)
    \/ \E r \in RequestIds : CompareAndLog(r)
    \/ \E r \in RequestIds : UpsertSnapshot(r)
    \/ \E r \in RequestIds : SendReport(r)
    \/ \E r \in RequestIds : FailRequest(r)

SpecRequests == Init /\ [][RequestsNext]_vars

(***************************************************************************)
(* C32: a step of a detection request changes the ChangeLog or a snapshot  *)
(* only when the comment counts of the request have settled and the step   *)
(* ends after the comparison of all pairs; every other step of a request,  *)
(* the one in which it fails included, leaves the task mappings, the       *)
(* snapshots and the ChangeLog as they are.                                *)
(***************************************************************************)
C32_WritesAfterComparison ==
    [][\A r \in RequestIds :
          (/\ running'[r] # running[r]
           /\ \/ changeLog' # changeLog
              \/ taskSnapshots' # taskSnapshots
              \/ taskMappings' # taskMappings)
          => /\ running[r].pc \in { "fetched", "logged" }
             /\ running'[r].pc = "logged"]_vars

\* request 1 failed after its comment counts had settled and before it wrote
\* anything, request 2 went through and logged a difference
C32_Witness ==
    /\ running[1].pc = "failed"
    /\ running[1].commentCounts.asana # << >>
    /\ running[1].report = [status |-> 0]
    /\ running[2].pc = "done"
    /\ running[2].report.summary.logged > 0
    /\ Len(changeLog) = running[2].report.summary.logged

\* two ChangeLog rows that record the same drift: the same pair, side and
\* field, from the same old value to the same new value
SameDrift(c1, c2) ==
    /\ c1.taskMappingId = c2.taskMappingId
    /\ c1.source = c2.source
    /\ c1.field = c2.field
    /\ c1.oldValue = c2.oldValue
    /\ c1.newValue = c2.newValue

(***************************************************************************)
(* C34: when the detection requests, which may overlap, have all returned  *)
(* their report and nothing was edited remotely since the first one began, *)
(* no drift is in the ChangeLog twice.                                     *)
(***************************************************************************)
C34_LoggedAtMostOnce ==
    (\A r \in RequestIds : running[r].pc = "done") =>
        \A i, j \in DOMAIN changeLog :
            i < j => ~SameDrift(changeLog[i].change, changeLog[j].change)

\* the one-sided rows of a project for the two ids of a suggestion
PlaneOnlyRows(rows, mappingId, p) ==
    { r \in rows : r.projectMappingId = mappingId /\ r.planeIssueId = p
                     /\ r.asanaTaskGid = NULL }
AsanaOnlyRows(rows, mappingId, a) ==
    { r \in rows : r.projectMappingId = mappingId /\ r.asanaTaskGid = a
                     /\ r.planeIssueId = NULL }

(***************************************************************************)
(* C33: a suggestion (p, a) of a bulk apply that finds a Plane-only pair   *)
(* for p and an Asana-only pair for a is linked, and after it exactly one  *)
(* pair holds p and a together and the Asana-only pair is gone.            *)
(***************************************************************************)
C33_BothOneSidedPairsMerged ==
    \A i \in DOMAIN applyLog :
        LET e == applyLog[i]
            p == e.suggestion.planeTaskId
            a == e.suggestion.asanaTaskGid
        IN  (/\ PlaneOnlyRows(e.before, e.mappingId, p) # {}
             /\ AsanaOnlyRows(e.before, e.mappingId, a) # {})
            => /\ e.result.status = "linked"
               /\ Cardinality({ r \in e.after : r.planeIssueId = p /\ r.asanaTaskGid = a }) = 1
               /\ AsanaOnlyRows(e.after, e.mappingId, a) = {}

\* the number of entries of a list that name the id
TimesIn(list, id) == Cardinality({ i \in DOMAIN list : list[i] = id })

(***************************************************************************)
(* C39: in the response of an import request every requested id is in      *)
(* exactly one of the lists imported and errors, and the summary adds up:  *)
(* success + failed = total.                                               *)
(***************************************************************************)
C39_ImportedOrFailed ==
    (request.op \in { "importToAsana", "importFromAsana" } /\ response.status = 200) =>
        /\ \A i \in DOMAIN request.ids :
              TimesIn(response.imported, request.ids[i])
                  + TimesIn(response.errors, request.ids[i]) = 1
        /\ response.summary.success + response.summary.failed = response.summary.total

\* the detection logged a difference for the pair, so it upserts its snapshot
Overwritten(tm) ==
    FieldRecords(RecordsOf(response.planeChanges \o response.asanaChanges, tm.id)) # << >>

CommentsCountOf(snapshot, side) ==
    IF side = "plane" THEN snapshot.planeCommentsCount ELSE snapshot.asanaCommentsCount

(***************************************************************************)
(* C36: when a detection overwrites the snapshot of a pair and fetched no  *)
(* comment count for one side of it, the new snapshot holds for that side  *)
(* the comment count of the snapshot it replaces.                          *)
(***************************************************************************)
C36_UnfetchedCountKept ==
    Detected =>
        \A tm \in ComparedPairs :
            LET old == SnapshotOf(detectRun.snapshots, tm.id)
                new == SnapshotOf(taskSnapshots, tm.id)
                id == [plane |-> tm.planeIssueId, asana |-> tm.asanaTaskGid]
            IN  (old # NoSnapshot /\ Overwritten(tm)) =>
                    \A side \in { "plane", "asana" } :
                        ~FetchIssued(side, id[side]) =>
                            CommentsCountOf(new, side) = CommentsCountOf(old, side)

\* a pair whose snapshot counts one Plane comment was renamed with updated_at
\* unchanged: the detection fetched no Plane count, replaced the snapshot and
\* the new snapshot still counts one comment
C36_Witness ==
    /\ Detected
    /\ \E tm \in ComparedPairs :
          LET old == SnapshotOf(detectRun.snapshots, tm.id)
              new == SnapshotOf(taskSnapshots, tm.id)
          IN  /\ old # NoSnapshot
              /\ Overwritten(tm)
              /\ ~FetchIssued("plane", tm.planeIssueId)
              /\ new # old
              /\ old.planeCommentsCount = 1
              /\ new.planeCommentsCount = 1

\* the field records that the detection just answered reports for the pair
ReportedFor(id) ==
    IF response'.status = 200
    THEN FieldRecords(RecordsOf(response'.planeChanges \o response'.asanaChanges, id))
    ELSE << >>

(***************************************************************************)
(* C37: a detection leaves the TaskMapping rows as they are, and leaves    *)
(* the snapshot of every pair for which it reports no field difference as  *)
(* it is: none is created, changed or deleted.                             *)
(***************************************************************************)
C37_UnreportedPairsUntouched ==
    [][request'.op = "detect" =>
          /\ taskMappings' = taskMappings
          /\ \A tm \in taskMappings :
                ReportedFor(tm.id) = << >> =>
                    /\ SnapshotOf(taskSnapshots', tm.id) = SnapshotOf(taskSnapshots, tm.id)
                    /\ { sn \in taskSnapshots' : sn.taskMappingId = tm.id }
                          = { sn \in taskSnapshots : sn.taskMappingId = tm.id }
          /\ \A sn \in taskSnapshots' : \E tm \in taskMappings : sn.taskMappingId = tm.id
      ]_vars

\* a detection reported a difference for one pair and replaced its snapshot;
\* the other pair, compared and unchanged, has the snapshot the run loaded
C37_Witness ==
    /\ Detected
    /\ \E tm1, tm2 \in ComparedPairs :
          /\ Overwritten(tm1)
          /\ SnapshotOf(taskSnapshots, tm1.id) # SnapshotOf(detectRun.snapshots, tm1.id)
          /\ ~Overwritten(tm2)
          /\ SnapshotOf(detectRun.snapshots, tm2.id) # NoSnapshot
          /\ SnapshotOf(taskSnapshots, tm2.id) = SnapshotOf(detectRun.snapshots, tm2.id)

\* ------------------------------------------------------------------------
\* POST /api/sync for one pair, the comment copies of the two imports, and
\* users commenting in the two systems.  The specification is SpecSync.
\* ------------------------------------------------------------------------

\* most comments one task holds
MaxComments == 3

SyncDirections == { "plane_to_asana", "asana_to_plane" }

\* what the remote calls of one request do: all succeed, the first call for
\* the task throws, or the first createComment throws
SyncOutcomes == { "ok", "taskThrows", "createCommentThrows" }

\* a comment of a task: source is the id of the comment of the other system
\* this one was copied from, 0 for a comment a user wrote
Comment(id, source, by) == [id |-> id, source |-> source, by |-> by]

\* new Error(message): what the clients and the sync functions throw; it is
\* no Response, so it has no json method
ThrownError(message) == [message |-> message, hasJson |-> FALSE, taskMappingId |-> NULL]

NoError == [message |-> NULL, hasJson |-> FALSE, taskMappingId |-> NULL]

\* what a sync function works on: the two comment lists, the CommentSync
\* table and the error thrown so far
SyncState(plane, asana, table) ==
    [plane |-> plane, asana |-> asana, commentSync |-> table, error |-> NoError]

Threw(st) == st.error # NoError

\* prisma.commentSync.findFirst({ where: { sourceSystem, sourceCommentId } })
existingSync(table, sourceSystem, sourceCommentId) ==
    \E cs \in table : cs.sourceSystem = sourceSystem /\ cs.sourceCommentId = sourceCommentId

CommentSyncRow(sourceSystem, sourceCommentId, targetCommentId) ==
    [sourceSystem |-> sourceSystem, sourceCommentId |-> sourceCommentId,
     targetCommentId |-> targetCommentId]

\* the loop of syncCommentsPlaneToAsana over the comments listComments returned
RECURSIVE syncCommentsPlaneToAsana(_, _, _)
syncCommentsPlaneToAsana(st, listedComments, outcome) ==
    IF listedComments = << >> \/ Threw(st) THEN st
    ELSE LET comment == Head(listedComments)
         IN  IF existingSync(st.commentSync, "plane", comment.id)
             THEN syncCommentsPlaneToAsana(st, Tail(listedComments), outcome)
             ELSE IF outcome = "createCommentThrows"
             THEN [st EXCEPT !.error = ThrownError("Asana API error")]
             ELSE LET asanaComment == Comment(Len(st.asana) + 1, comment.id, "sync")
                  IN  syncCommentsPlaneToAsana(
                          [st EXCEPT !.asana = Append(@, asanaComment),
                                     !.commentSync =
                                         @ \cup { CommentSyncRow("plane", comment.id,
                                                                 asanaComment.id) }],
                          Tail(listedComments), outcome)

\* the loop of syncCommentsAsanaToPlane over the stories listTaskStories returned
RECURSIVE syncCommentsAsanaToPlane(_, _, _)
syncCommentsAsanaToPlane(st, listedStories, outcome) ==
    IF listedStories = << >> \/ Threw(st) THEN st
    ELSE LET comment == Head(listedStories)
         IN  IF existingSync(st.commentSync, "asana", comment.id)
             THEN syncCommentsAsanaToPlane(st, Tail(listedStories), outcome)
             ELSE IF outcome = "createCommentThrows"
             THEN [st EXCEPT !.error = ThrownError("Plane API error")]
             ELSE LET planeComment == Comment(Len(st.plane) + 1, comment.id, "sync")
                  IN  syncCommentsAsanaToPlane(
                          [st EXCEPT !.plane = Append(@, planeComment),
                                     !.commentSync =
                                         @ \cup { CommentSyncRow("asana", comment.id,
                                                                 planeComment.id) }],
                          Tail(listedStories), outcome)

\* if (!taskMapping.planeIssueId || !taskMapping.asanaTaskGid)
FullyMatched(taskMapping) ==
    taskMapping.planeIssueId # NULL /\ taskMapping.asanaTaskGid # NULL

syncPlaneToAsana(st, taskMapping, syncComments, outcome) ==
    IF ~FullyMatched(taskMapping)
    THEN [st EXCEPT !.error = ThrownError("Task must be matched before syncing")]
    ELSE IF outcome = "taskThrows"
    THEN [st EXCEPT !.error = ThrownError("Plane API error")]
    ELSE IF syncComments
    THEN syncCommentsPlaneToAsana(st, st.plane, outcome)
    ELSE st

syncAsanaToPlane(st, taskMapping, syncComments, outcome) ==
    IF ~FullyMatched(taskMapping)
    THEN [st EXCEPT !.error = ThrownError("Task must be matched before syncing")]
    ELSE IF outcome = "taskThrows"
    THEN [st EXCEPT !.error = ThrownError("Asana API error")]
    ELSE IF syncComments
    THEN syncCommentsAsanaToPlane(st, st.asana, outcome)
    ELSE st

\* const syncDirection = direction || (...)
syncDirection(direction, taskMapping) ==
    IF direction # NULL THEN direction
    ELSE IF taskMapping.syncStatus = "PENDING_ASANA_SYNC" THEN "plane_to_asana"
    ELSE "asana_to_plane"

\* const body = await (error as Response).json?.().catch(() => ({}));
\* const taskMappingId = body?.taskMappingId
taskMappingIdOf(error) == IF error.hasJson THEN error.taskMappingId ELSE NULL

\* the catch block of POST /api/sync
AfterCatch(taskMapping, error) ==
    IF taskMappingIdOf(error) # NULL
    THEN [taskMapping EXCEPT !.syncStatus = "ERROR", !.lastSyncError = error.message]
    ELSE taskMapping

\* the update after the sync function returned
AfterSync(taskMapping) ==
    [taskMapping EXCEPT !.syncStatus = "SYNCED", !.lastSyncError = NULL]

CommentsWithinBounds(st) == Len(st.plane) <= MaxComments /\ Len(st.asana) <= MaxComments

\* POST /api/sync
Sync(direction, syncComments, outcome) ==
    IF ~syncMapping.exists
    THEN /\ syncRequest' = [op |-> "sync", status |-> 404]
         /\ UNCHANGED << syncMapping, planeIssueComments, asanaTaskStories, commentSync >>
    ELSE LET st0 == SyncState(planeIssueComments, asanaTaskStories, commentSync)
             st  == IF syncDirection(direction, syncMapping) = "plane_to_asana"
                    THEN syncPlaneToAsana(st0, syncMapping, syncComments, outcome)
                    ELSE syncAsanaToPlane(st0, syncMapping, syncComments, outcome)
         IN  /\ CommentsWithinBounds(st)
             /\ planeIssueComments' = st.plane
             /\ asanaTaskStories' = st.asana
             /\ commentSync' = st.commentSync
             /\ syncMapping' = IF Threw(st) THEN AfterCatch(syncMapping, st.error)
                               ELSE AfterSync(syncMapping)
             /\ syncRequest' = [op |-> "sync",
                                status |-> IF Threw(st) THEN 500 ELSE 200]

PostSync ==
    /\ \E direction \in SyncDirections \cup { NULL }, syncComments \in BOOLEAN,
          outcome \in SyncOutcomes :
          Sync(direction, syncComments, outcome)
    /\ UNCHANGED << matchVars, scoreVars, fetchVars, linkVars, detectVars, bandVars,
                    requestVars >>

ImportedMapping ==
    [exists |-> TRUE, planeIssueId |-> "p1", asanaTaskGid |-> "a1",
     syncStatus |-> "SYNCED", lastSyncError |-> NULL]

\* for (const comment of listedComments) await asanaClient.createComment(...)
RECURSIVE CopyToAsana(_, _, _)
CopyToAsana(asana, listedComments, outcome) ==
    IF listedComments = << >> \/ outcome = "createCommentThrows" THEN asana
    ELSE CopyToAsana(Append(asana, Comment(Len(asana) + 1, Head(listedComments).id, "import")),
                     Tail(listedComments), outcome)

\* for (const comment of listedStories) await planeClient.createComment(...)
RECURSIVE CopyToPlane(_, _, _)
CopyToPlane(plane, listedStories, outcome) ==
    IF listedStories = << >> \/ outcome = "createCommentThrows" THEN plane
    ELSE CopyToPlane(Append(plane, Comment(Len(plane) + 1, Head(listedStories).id, "import")),
                     Tail(listedStories), outcome)

\* import-to-asana for the Plane issue: the Asana task is new
ImportIssueToAsana ==
    /\ ~syncMapping.exists
    /\ asanaTaskStories = << >>
    /\ \E outcome \in { "ok", "createCommentThrows" } :
          /\ syncMapping' = ImportedMapping
          /\ asanaTaskStories' = CopyToAsana(<< >>, planeIssueComments, outcome)
          /\ syncRequest' = [op |-> "import-to-asana", status |-> 200]
    /\ UNCHANGED << planeIssueComments, commentSync >>
    /\ UNCHANGED << matchVars, scoreVars, fetchVars, linkVars, detectVars, bandVars,
                    requestVars >>

\* import-from-asana for the Asana task: the Plane issue is new
ImportTaskFromAsana ==
    /\ ~syncMapping.exists
    /\ planeIssueComments = << >>
    /\ \E outcome \in { "ok", "createCommentThrows" } :
          /\ syncMapping' = ImportedMapping
          /\ planeIssueComments' = CopyToPlane(<< >>, asanaTaskStories, outcome)
          /\ syncRequest' = [op |-> "import-from-asana", status |-> 200]
    /\ UNCHANGED << asanaTaskStories, commentSync >>
    /\ UNCHANGED << matchVars, scoreVars, fetchVars, linkVars, detectVars, bandVars,
                    requestVars >>

\* a user writes a comment on the Plane issue
WriteInPlane ==
    /\ syncMapping.exists => syncMapping.planeIssueId # NULL
    /\ Len(planeIssueComments) < MaxComments
    /\ planeIssueComments' =
           Append(planeIssueComments, Comment(Len(planeIssueComments) + 1, 0, "user"))
    /\ syncRequest' = NoSyncRequest
    /\ UNCHANGED << syncMapping, asanaTaskStories, commentSync >>
    /\ UNCHANGED << matchVars, scoreVars, fetchVars, linkVars, detectVars, bandVars,
                    requestVars >>

\* a user writes a comment on the Asana task
WriteInAsana ==
    /\ syncMapping.exists => syncMapping.asanaTaskGid # NULL
    /\ Len(asanaTaskStories) < MaxComments
    /\ asanaTaskStories' =
           Append(asanaTaskStories, Comment(Len(asanaTaskStories) + 1, 0, "user"))
    /\ syncRequest' = NoSyncRequest
    /\ UNCHANGED << syncMapping, planeIssueComments, commentSync >>
    /\ UNCHANGED << matchVars, scoreVars, fetchVars, linkVars, detectVars, bandVars,
                    requestVars >>

\* the pair before the first request: not tracked, tracked on the Plane side
\* only, or matched
SyncInit ==
    /\ LinkIdle
    /\ MatchIdle
    /\ ScoreIdle
    /\ FetchIdle
    /\ DetectIdle
    /\ BandIdle
    /\ RequestIdle
    /\ syncMapping \in
          { NoMapping,
            [exists |-> TRUE, planeIssueId |-> "p1", asanaTaskGid |-> NULL,
             syncStatus |-> "PENDING_ASANA_SYNC", lastSyncError |-> NULL],
            [exists |-> TRUE, planeIssueId |-> "p1", asanaTaskGid |-> "a1",
             syncStatus |-> "MATCHED", lastSyncError |-> NULL] }
    /\ planeIssueComments = << >>
    /\ asanaTaskStories = << >>
    /\ commentSync = {}
    /\ syncRequest = NoSyncRequest

SyncNext ==
    \/ PostSync
    \/ ImportIssueToAsana
    \/ ImportTaskFromAsana
    \/ WriteInPlane
    \/ WriteInAsana

SpecSync == SyncInit /\ [][SyncNext]_vars

\* C35: after a sync request that found its task mapping and failed, the
\* mapping's syncStatus is ERROR and lastSyncError is recorded
C35_FailedSyncMarksError ==
    (syncRequest.op = "sync" /\ syncRequest.status = 500) =>
        /\ syncMapping.syncStatus = "ERROR"
        /\ syncMapping.lastSyncError # NULL

\* the comments of a list that were copied from the comment id of the other list
CopiesOf(comments, id) == { i \in DOMAIN comments : comments[i].source = id }

\* every comment a user wrote has at most one copy in the other list
CopiedAtMostOnce(originals, copies) ==
    \A i \in DOMAIN originals :
        originals[i].source = 0 => Cardinality(CopiesOf(copies, originals[i].id)) <= 1

\* no comment of the list copies is a copy of a copy
NeverCopiedBack(originals, copies) ==
    \A i \in DOMAIN copies :
        copies[i].source # 0 => originals[copies[i].source].source = 0

\* C38: each comment a user wrote is created in the other system at most
\* once, and a comment that a sync or an import created is never copied back
C38_CommentsCopiedOnce ==
    /\ CopiedAtMostOnce(planeIssueComments, asanaTaskStories)
    /\ CopiedAtMostOnce(asanaTaskStories, planeIssueComments)
    /\ NeverCopiedBack(planeIssueComments, asanaTaskStories)
    /\ NeverCopiedBack(asanaTaskStories, planeIssueComments)

====
